---- MODULE Spec2Model ----
(***************************************************************************)
(* A model of the click session (src/src/cmd.rs): the commands of the      *)
(* repl as actions over the session state (Env).  The Env methods that     *)
(* cmd.rs calls (set_context, clear_current, set_namespace, set_last_objs, *)
(* clear_last_objs, apply_to_selection, run_on_kluster) and the table      *)
(* helpers (get_regex, filter, print_table) live outside cmd.rs and are    *)
(* modelled after the specification's description of them.                 *)
(***************************************************************************)
EXTENDS Integers, Sequences, FiniteSets, TLC

----------------------------------------------------------------------------
(* Bounds and the universe of values *)

\* the cluster holds at most NumNames pods, named 1..NumNames, and one
\* object, named 1, of every other kind
NumNames == 3

Names == 1..NumNames

OtherNames == {1}

KindNames(typ) == IF typ = "Pod" THEN Names ELSE OtherNames

Contexts == {"c1", "c2"}

Namespaces == {"ns1"}

NoKluster == "NoKluster"

NoNamespace == "NoNamespace"

\* the kinds of objects a listing yields (kobj.rs ObjType); "Namespace"
\* objects are printed by the namespaces command
ObjKinds ==
    {"Pod", "Node", "Service", "Deployment", "ReplicaSet", "StatefulSet",
     "ConfigMap", "Secret", "Job"}

VARIABLES
    kluster,            \* env.kluster: the active context, or NoKluster
    namespace,          \* env.namespace: Option<String>
    current_selection,  \* env.current_selection(): ObjectSelection
    last_objs,          \* env last_objs: the objects of the last listing
    obs                 \* what the last command did: its name, its error, the
                        \* events it caused (in order) and the table it printed

\* The logs command followed statement by statement (LogSpec)
VARIABLES
    ctrlcbool,          \* env.ctrlcbool: the flag an interrupt sets
    logs_req,           \* the arguments of the logs command and what it runs on
    lg,                 \* do_logs on the current object: where it is, its
                        \* reader, its file, what it wrote
    chan,               \* the channel of console mode
    prod                \* the thread console mode spawns

\* The port-forward command (PfSpec)
VARIABLES
    port_forwards,      \* env port_forwards: the live forwards
    pf_obs,             \* what the port-forward command did
    pf_req              \* the <ports> arguments of the port-forward command

session_vars == <<kluster, namespace, current_selection, last_objs, obs>>

log_vars == <<ctrlcbool, logs_req, lg, chan, prod>>

pf_vars == <<port_forwards, pf_obs, pf_req>>

vars == <<session_vars, log_vars, pf_vars>>

----------------------------------------------------------------------------
(* Sequences *)

Reverse(s) == [i \in 1..Len(s) |-> s[Len(s) + 1 - i]]

RECURSIVE Flatten(_)
Flatten(ss) == IF ss = <<>> THEN <<>> ELSE Head(ss) \o Flatten(Tail(ss))

\* a line read from stdin: read_line fails, or gives the text typed with its
\* newline (nothing at all at end of input)
Line(ok, text) == [ok |-> ok, text |-> text]

Whitespace == {" ", "\n"}

\* str::trim: the text without its leading and trailing whitespace
RECURSIVE trim_start(_)
trim_start(s) ==
    IF s # <<>> /\ Head(s) \in Whitespace THEN trim_start(Tail(s)) ELSE s

trim(s) == Reverse(trim_start(Reverse(trim_start(s))))

\* the answers an operator types at a [y/N] prompt in a session
Answers == {Line(TRUE, <<"y", "\n">>), Line(TRUE, <<"n", "\n">>)}

\* the members of a set of naturals in ascending order
RECURSIVE Ascending(_)
Ascending(S) ==
    IF S = {} THEN <<>>
    ELSE LET m == CHOOSE x \in S : \A y \in S : x <= y
         IN <<m>> \o Ascending(S \ {m})

----------------------------------------------------------------------------
(* Objects, selections, events *)

\* a KObj built from a listed item: nodes are cluster scoped, every other
\* kind carries the namespace the API reported
KObj(typ, name) ==
    [typ |-> typ, name |-> name,
     namespace |-> IF typ = "Node" THEN NoNamespace ELSE "ns1"]

NoObj == [typ |-> "NoObj", name |-> 0, namespace |-> NoNamespace]

is_pod(obj) == obj.typ = "Pod"

SelNone == [tag |-> "None", objs |-> <<>>]

SelSingle(obj) == [tag |-> "Single", objs |-> <<obj>>]

SelRange(objs) == [tag |-> "Range", objs |-> objs]

\* one observable step of a command: a remote call, a prompt, a spawned
\* process, a line written, a separator, or the invocation of the action
\* apply_to_selection was given
Ev(ev, obj, arg) == [ev |-> ev, obj |-> obj, arg |-> arg]

Obs(cmd, args, err, out, table) ==
    [cmd |-> cmd, args |-> args, err |-> err, out |-> out, table |-> table]

\* obs.args keeps the argument of context, namespace and of a range expression
\* nothing to observe: the session waits at its prompt for the next command
Idle == Obs("prompt", <<>>, "ok", <<>>, <<>>)

\* what a port-forward command did: whether exec_match ran the handler, the
\* kubectl processes spawned, the lines written to the writer and to stderr
PfObs(done, execed, spawned, out, err) ==
    [done |-> done, execed |-> execed, spawned |-> spawned, out |-> out, err |-> err,
     cmd |-> "port-forward", action |-> "NoArg", index |-> <<>>,
     table |-> <<>>, shown |-> <<>>, buffer |-> <<>>, killed |-> <<>>,
     partial |-> <<>>, read |-> <<>>]

\* what a port-forwards command did: its arguments, the lines written to
\* the writer and to stderr, the table printed (no rows when it prints none),
\* the forwards whose description was written, the output buffers written
\* (and whether a chunk was half appended to them), the forwards whose child
\* was killed, and the line read at the [y/N] question
PfsObs(action, index, out, err, shown, buffer, killed) ==
    [PfObs(TRUE, TRUE, <<>>, out, err) EXCEPT
        !.cmd = "port-forwards", !.action = action, !.index = index,
        !.shown = shown, !.buffer = buffer, !.killed = killed]

NoPf == PfObs(FALSE, FALSE, <<>>, <<>>, <<>>)

----------------------------------------------------------------------------
(* The Env methods cmd.rs calls *)

\* env.run_on_kluster(|k| ...): runs the remote call when a context is active
\* and yields its result, None (FetchFail) when there is no context or the
\* call fails.  `resp` is what the cluster would answer.
FetchFail == [ok |-> FALSE, items |-> <<>>]

run_on_kluster(call, obj, url, resp) ==
    IF kluster = NoKluster
    THEN [out |-> <<>>, res |-> FetchFail]
    ELSE [out |-> <<Ev(call, obj, url)>>, res |-> resp]

\* env.set_context(name): switches context and, as a side effect, clears
\* Selection and LastObjects
set_context(name) ==
    /\ kluster' = name
    /\ current_selection' = SelNone
    /\ last_objs' = <<>>

\* env.clear_current(): sets Selection to None
clear_current == current_selection' = SelNone

\* env.set_namespace(ns): scopes later listings; does not touch Selection
set_namespace(ns) == namespace' = ns

\* env.set_last_objs(list): replaces LastObjects by the listing's objects
set_last_objs(typ, items) ==
    last_objs' = [i \in 1..Len(items) |-> KObj(typ, items[i])]

\* env.clear_last_objs()
clear_last_objs == last_objs' = <<>>

\* env.click_config.range_separator
range_separator == "--- {name} ---"

NoSeparator == "NoSeparator"

\* env.apply_to_selection(writer, separator, action): None fails with
\* NoSelection; Single invokes the action once; Range invokes it once per
\* object in order and writes the separator between invocations.  The
\* "invoke" event marks each call of the action; action[k] gives the events
\* the action causes when it is called on the k-th object.
apply_to_selection(sel, sep, action) ==
    CASE sel.tag = "None" -> [err |-> "NoSelection", out |-> <<>>]
      [] sel.tag = "Single" ->
            [err |-> "ok",
             out |-> <<Ev("invoke", sel.objs[1], <<>>)>> \o action[1]]
      [] sel.tag = "Range" ->
            [err |-> "ok",
             out |-> Flatten([k \in 1..Len(sel.objs) |->
                        (IF k > 1 /\ sep # NoSeparator
                         THEN <<Ev("sep", NoObj, <<sep>>)>> ELSE <<>>)
                        \o <<Ev("invoke", sel.objs[k], <<>>)>>
                        \o action[k]])]

----------------------------------------------------------------------------
(* Range expressions *)

\* A range expression is a set of indices ("0,2"), a slice "lo..hi" with both
\* ends included, or the wildcard.  Indices are 0-based.
MaxIndex == NumNames

RangeExprs ==
    {[tag |-> "Indices", idx |-> S, lo |-> 0, hi |-> 0] :
        S \in (SUBSET (0..MaxIndex)) \ {{}}}
    \cup {[tag |-> "Slice", idx |-> {}, lo |-> a, hi |-> b] :
            a \in 0..MaxIndex, b \in 1..MaxIndex}
    \cup {[tag |-> "All", idx |-> {}, lo |-> 0, hi |-> 0]}

\* the indices an expression denotes within a list of length n
Denoted(expr, n) ==
    CASE expr.tag = "Indices" -> expr.idx
      [] expr.tag = "Slice" -> expr.lo..expr.hi
      [] expr.tag = "All" -> 0..(n - 1)

\* a resolve_range that yields the denoted objects in descending order
resolve_range_descending(expr, L) ==
    LET I == Denoted(expr, Len(L))
    IN IF L = <<>> \/ I = {} \/ \E i \in I : i >= Len(L)
       THEN [ok |-> FALSE, objs |-> <<>>]
       ELSE LET desc == Reverse(Ascending(I))
            IN [ok |-> TRUE, objs |-> [k \in 1..Len(desc) |-> L[desc[k] + 1]]]

\* a resolve_range that drops the indices that are out of bounds
resolve_range_clamped(expr, L) ==
    LET I == Denoted(expr, Len(L)) \cap (0..(Len(L) - 1))
    IN IF L = <<>> \/ I = {}
       THEN [ok |-> FALSE, objs |-> <<>>]
       ELSE LET asc == Ascending(I)
            IN [ok |-> TRUE, objs |-> [k \in 1..Len(asc) |-> L[asc[k] + 1]]]

\* resolveRange(expr) against LastObjects L: InvalidRange when L is empty or
\* an index is out of bounds (an empty slice denotes nothing to select);
\* otherwise the objects at the denoted indices in ascending order
resolve_range(expr, L) ==
    LET I == Denoted(expr, Len(L))
    IN IF L = <<>> \/ I = {} \/ \E i \in I : i >= Len(L)
       THEN [ok |-> FALSE, objs |-> <<>>]
       ELSE LET asc == Ascending(I)
            IN [ok |-> TRUE, objs |-> [k \in 1..Len(asc) |-> L[asc[k] + 1]]]

----------------------------------------------------------------------------
(* Tables: regex filter, sorting, printing *)

\* The --regex argument: absent, a pattern that does not compile, or a
\* pattern, which is modelled by the set of names whose row it matches.
NoRegex == [kind |-> "none", matches |-> {}]

BadRegex == [kind |-> "bad", matches |-> {}]

\* one pattern stands for the patterns an operator may type: it matches
\* the rows of every object but the first
RegexArgs == {NoRegex, BadRegex, [kind |-> "pattern", matches |-> Names \ {1}]}

\* table::get_regex(&matches): Err on a pattern that does not compile
get_regex(arg) ==
    IF arg = BadRegex THEN [ok |-> FALSE, regex |-> NoRegex]
    ELSE [ok |-> TRUE, regex |-> arg]

RowMatches(r, item) == item \in r.matches

\* table::filter(specs, regex): keeps the rows the regex matches, in order
table_filter(items, r) == SelectSeq(items, LAMBDA item : RowMatches(r, item))

\* the rows table::print_table writes; CellSpec::new_index() numbers the
\* rows from 0 in the order they are printed
print_table(items) == [i \in 1..Len(items) |-> [idx |-> i - 1, name |-> items[i]]]

NoIndex == -1

\* a table without an index column (namespaces)
print_table_noindex(items) ==
    [i \in 1..Len(items) |-> [idx |-> NoIndex, name |-> items[i]]]

\* The --sort argument.  The columns differ per command; two stand for them:
\* "Name" orders by metadata.name, "Age" by metadata.creation_timestamp.
NoSort == "NoSort"

SortCols == {"Name", "Age"}

\* the creation time the cluster reports for an object (two objects may
\* have been created at the same time)
creation_timestamp(name) == (2 * name) % (NumNames + 1)

SortKey(col, name) == IF col = "Name" THEN name ELSE creation_timestamp(name)

\* slice::sort_by is a stable sort: an item goes behind every item whose key
\* is not greater than its own
RECURSIVE InsertSorted(_, _, _)
InsertSorted(col, sorted, x) ==
    IF sorted = <<>> THEN <<x>>
    ELSE IF SortKey(col, Head(sorted)) <= SortKey(col, x)
         THEN <<Head(sorted)>> \o InsertSorted(col, Tail(sorted), x)
         ELSE <<x>> \o sorted

RECURSIVE SortFrom(_, _, _)
SortFrom(col, sorted, rest) ==
    IF rest = <<>> THEN sorted
    ELSE SortFrom(col, InsertSorted(col, sorted, Head(rest)), Tail(rest))

sort_by(items, col) == SortFrom(col, <<>>, items)

\* the shape shared by print_podlist, print_nodelist, print_deployments and
\* print_servicelist: sort, reverse, filter, print, return the printed items
PrintSorted(items, regex, sort, reverse) ==
    LET sorted == IF sort = NoSort THEN items ELSE sort_by(items, sort)
        to_map == IF reverse THEN Reverse(sorted) ELSE sorted
        filtered == IF regex = NoRegex THEN to_map ELSE table_filter(to_map, regex)
    IN [table |-> print_table(filtered), items |-> filtered]

\* the shape shared by print_replicasets, print_statefulsets,
\* print_configmaps, print_secrets and print_jobs: filter, print, return
PrintFiltered(items, regex) ==
    LET filtered == IF regex = NoRegex THEN items ELSE table_filter(items, regex)
    IN [table |-> print_table(filtered), items |-> filtered]

\* a print_podlist that returns the pods it sorted, not the pods it printed
print_podlist_unfiltered(podlist, regex, sort, reverse) ==
    LET sorted == IF sort = NoSort THEN podlist ELSE sort_by(podlist, sort)
        to_map == IF reverse THEN Reverse(sorted) ELSE sorted
        filtered == IF regex = NoRegex THEN to_map ELSE table_filter(to_map, regex)
    IN [table |-> print_table(filtered), items |-> to_map]

print_podlist(podlist, regex, sort, reverse) == PrintSorted(podlist, regex, sort, reverse)

print_nodelist(nodelist, regex, sort, reverse) == PrintSorted(nodelist, regex, sort, reverse)

print_deployments(deplist, regex, sort, reverse) == PrintSorted(deplist, regex, sort, reverse)

print_servicelist(servlist, regex, sort, reverse) == PrintSorted(servlist, regex, sort, reverse)

print_replicasets(list, regex) == PrintFiltered(list, regex)

print_statefulsets(list, regex) == PrintFiltered(list, regex)

print_configmaps(list, regex) == PrintFiltered(list, regex)

print_secrets(list, regex) == PrintFiltered(list, regex)

print_jobs(joblist, regex) == PrintFiltered(joblist, regex)

\* print_namespaces prints the filtered rows and returns nothing
print_namespaces(nslist, regex) ==
    LET filtered == IF regex = NoRegex THEN nslist ELSE table_filter(nslist, regex)
    IN print_table_noindex(filtered)

\* what the cluster may answer to a list request for a kind: a failure, or
\* the objects of that kind it holds at the time (none, the first, the
\* first two, ...), which the API returns in its own order (here by
\* descending name, so that sorting by name shows)
ListResponses(typ) ==
    {FetchFail}
    \cup {[ok |-> TRUE, items |-> Reverse(Ascending({n \in KindNames(typ) : n <= k}))] :
             k \in 0..NumNames}

----------------------------------------------------------------------------
(* The session runs one command to completion before it reads the next *)

AtPrompt == obs = Idle

\* the command's output has been written; the prompt is shown again
Prompt ==
    /\ obs # Idle
    /\ obs' = Idle
    /\ UNCHANGED <<log_vars, pf_vars>>
    /\ UNCHANGED <<kluster, namespace, current_selection, last_objs>>

----------------------------------------------------------------------------
(* The commands that move the session: context, clear, namespace *)

NoArg == "NoArg"

\* a context command that takes any active context for the one named
ContextStays(context) ==
    /\ AtPrompt
    /\ UNCHANGED <<log_vars, pf_vars>>
    /\ IF context # NoArg
       THEN IF kluster # NoKluster
            THEN /\ obs' = Obs("context", <<context>>, "ok", <<>>, <<>>)
                 /\ UNCHANGED <<kluster, namespace, current_selection, last_objs>>
            ELSE /\ set_context(context)
                 /\ clear_current
                 /\ obs' = Obs("context", <<context>>, "ok", <<>>, <<>>)
                 /\ UNCHANGED namespace
       ELSE /\ obs' = Obs("context", <<context>>, "ok",
                          <<Ev("write", NoObj, <<"contexts">>)>>, <<>>)
            /\ UNCHANGED <<kluster, namespace, current_selection, last_objs>>

\* context [name]: no-op when the named context is already active; lists
\* the contexts when no name is given
Context(context) ==
    /\ AtPrompt
    /\ UNCHANGED <<log_vars, pf_vars>>
    /\ IF context # NoArg
       THEN IF kluster # NoKluster /\ kluster = context
            THEN /\ obs' = Obs("context", <<context>>, "ok", <<>>, <<>>)
                 /\ UNCHANGED <<kluster, namespace, current_selection, last_objs>>
            ELSE /\ set_context(context)
                 /\ clear_current
                 /\ obs' = Obs("context", <<context>>, "ok", <<>>, <<>>)
                 /\ UNCHANGED namespace
       ELSE /\ obs' = Obs("context", <<context>>, "ok",
                          <<Ev("write", NoObj, <<"contexts">>)>>, <<>>)
            /\ UNCHANGED <<kluster, namespace, current_selection, last_objs>>

\* a clear command that leaves the selection
ClearKeeps ==
    /\ AtPrompt
    /\ UNCHANGED <<log_vars, pf_vars>>
    /\ obs' = Obs("clear", <<>>, "ok", <<>>, <<>>)
    /\ UNCHANGED <<kluster, namespace, current_selection, last_objs>>

\* a clear command that also forgets the live forwards
ClearStopsForwards ==
    /\ AtPrompt
    /\ UNCHANGED <<log_vars, pf_obs, pf_req>>
    /\ port_forwards' = <<>>
    /\ clear_current
    /\ obs' = Obs("clear", <<>>, "ok", <<>>, <<>>)
    /\ UNCHANGED <<kluster, namespace, last_objs>>

Clear ==
    /\ AtPrompt
    /\ UNCHANGED <<log_vars, pf_vars>>
    /\ clear_current
    /\ obs' = Obs("clear", <<>>, "ok", <<>>, <<>>)
    /\ UNCHANGED <<kluster, namespace, last_objs>>

\* a namespace command that also clears the selection
NamespaceClears(ns) ==
    /\ AtPrompt
    /\ UNCHANGED <<log_vars, pf_vars>>
    /\ set_namespace(IF ns = NoArg THEN NoNamespace ELSE ns)
    /\ clear_current
    /\ obs' = Obs("namespace", <<ns>>, "ok", <<>>, <<>>)
    /\ UNCHANGED <<kluster, last_objs>>

\* namespace [name]: no argument clears the namespace
Namespace(ns) ==
    /\ AtPrompt
    /\ UNCHANGED <<log_vars, pf_vars>>
    /\ set_namespace(IF ns = NoArg THEN NoNamespace ELSE ns)
    /\ obs' = Obs("namespace", <<ns>>, "ok", <<>>, <<>>)
    /\ UNCHANGED <<kluster, current_selection, last_objs>>

----------------------------------------------------------------------------
(* Selecting: an object of the last listing by its index, or a range *)

\* the select action: the object at index i of LastObjects becomes the
\* Single selection
Select(i) ==
    /\ AtPrompt
    /\ UNCHANGED <<log_vars, pf_vars>>
    /\ i < Len(last_objs)
    /\ current_selection' = SelSingle(last_objs[i + 1])
    /\ obs' = Obs("select", <<>>, "ok", <<>>, <<>>)
    /\ UNCHANGED <<kluster, namespace, last_objs>>

\* a range expression typed at the prompt is resolved against LastObjects;
\* InvalidRange leaves the selection as it was
SetRange(expr) ==
    /\ AtPrompt
    /\ UNCHANGED <<log_vars, pf_vars>>
    /\ LET r == resolve_range(expr, last_objs)
       IN IF r.ok
          THEN /\ current_selection' = SelRange(r.objs)
               /\ obs' = Obs("setrange", <<expr>>, "ok", <<>>, <<>>)
               /\ UNCHANGED <<kluster, namespace, last_objs>>
          ELSE /\ obs' = Obs("setrange", <<expr>>, "InvalidRange", <<>>, <<>>)
               /\ UNCHANGED <<kluster, namespace, current_selection, last_objs>>

----------------------------------------------------------------------------
(* The listing commands *)

NsUrl(path) ==
    IF namespace # NoNamespace THEN <<"namespaces", namespace, path>> ELSE <<path>>

\* pods: a selected node restricts the listing to the pods of that node
\* (a --label selector, which only narrows what the cluster answers, is
\* part of the cluster's answer)
PodsUrl ==
    NsUrl("pods")
    \o (IF current_selection.tag = "Single" /\ current_selection.objs[1].typ = "Node"
        THEN <<"?fieldSelector=spec.nodeName=">>
        ELSE <<>>)

\* a pods command that also clears the selection when it records its list
PodsClears(regexArg, resp, sort, reverse) ==
    /\ AtPrompt
    /\ UNCHANGED <<log_vars, pf_vars>>
    /\ LET rx == get_regex(regexArg)
       IN IF ~rx.ok
          THEN /\ obs' = Obs("pods", <<>>, "BadRegex", <<Ev("stderr", NoObj, <<"invalid regex">>)>>, <<>>)
               /\ UNCHANGED <<kluster, namespace, current_selection, last_objs>>
          ELSE LET pl == run_on_kluster("get", NoObj, PodsUrl, resp)
               IN IF pl.res.ok
                  THEN LET end_list == print_podlist(pl.res.items, rx.regex, sort, reverse)
                       IN /\ set_last_objs("Pod", end_list.items)
                          /\ clear_current
                          /\ obs' = Obs("pods", <<>>, "ok", pl.out, end_list.table)
                          /\ UNCHANGED <<kluster, namespace>>
                  ELSE /\ clear_last_objs
                       /\ clear_current
                       /\ obs' = Obs("pods", <<>>, "FetchFail", pl.out, <<>>)
                       /\ UNCHANGED <<kluster, namespace>>

\* a pods command that records its list only when it printed a row
PodsKeepsWhenEmpty(regexArg, resp, sort, reverse) ==
    /\ AtPrompt
    /\ UNCHANGED <<log_vars, pf_vars>>
    /\ LET rx == get_regex(regexArg)
       IN IF ~rx.ok
          THEN /\ obs' = Obs("pods", <<>>, "BadRegex", <<Ev("stderr", NoObj, <<"invalid regex">>)>>, <<>>)
               /\ UNCHANGED <<kluster, namespace, current_selection, last_objs>>
          ELSE LET pl == run_on_kluster("get", NoObj, PodsUrl, resp)
               IN IF pl.res.ok
                  THEN LET end_list == print_podlist(pl.res.items, rx.regex, sort, reverse)
                       IN /\ IF end_list.items # <<>>
                             THEN set_last_objs("Pod", end_list.items)
                             ELSE UNCHANGED last_objs
                          /\ obs' = Obs("pods", <<>>, "ok", pl.out, end_list.table)
                          /\ UNCHANGED <<kluster, namespace, current_selection>>
                  ELSE /\ clear_last_objs
                       /\ obs' = Obs("pods", <<>>, "FetchFail", pl.out, <<>>)
                       /\ UNCHANGED <<kluster, namespace, current_selection>>

Pods(regexArg, resp, sort, reverse) ==
    /\ AtPrompt
    /\ UNCHANGED <<log_vars, pf_vars>>
    /\ LET rx == get_regex(regexArg)
       IN IF ~rx.ok
          THEN /\ obs' = Obs("pods", <<>>, "BadRegex", <<Ev("stderr", NoObj, <<"invalid regex">>)>>, <<>>)
               /\ UNCHANGED <<kluster, namespace, current_selection, last_objs>>
          ELSE LET pl == run_on_kluster("get", NoObj, PodsUrl, resp)
               IN IF pl.res.ok
                  THEN LET end_list == print_podlist(pl.res.items, rx.regex, sort, reverse)
                       IN /\ set_last_objs("Pod", end_list.items)
                          /\ obs' = Obs("pods", <<>>, "ok", pl.out, end_list.table)
                          /\ UNCHANGED <<kluster, namespace, current_selection>>
                  ELSE /\ clear_last_objs
                       /\ obs' = Obs("pods", <<>>, "FetchFail", pl.out, <<>>)
                       /\ UNCHANGED <<kluster, namespace, current_selection>>

\* a nodes command that fetches, and records what it fetched, before it
\* looks at the regex
NodesFetchesFirst(regexArg, resp, sort, reverse) ==
    /\ AtPrompt
    /\ UNCHANGED <<log_vars, pf_vars>>
    /\ LET rx == get_regex(regexArg)
           nl == run_on_kluster("get", NoObj, <<"nodes">>, resp)
       IN /\ IF nl.res.ok
             THEN set_last_objs("Node", print_nodelist(nl.res.items, rx.regex, sort, reverse).items)
             ELSE clear_last_objs
          /\ obs' = IF ~rx.ok
                    THEN Obs("nodes", <<>>, "BadRegex",
                             nl.out \o <<Ev("stderr", NoObj, <<"invalid regex">>)>>, <<>>)
                    ELSE IF nl.res.ok
                    THEN Obs("nodes", <<>>, "ok", nl.out,
                             print_nodelist(nl.res.items, rx.regex, sort, reverse).table)
                    ELSE Obs("nodes", <<>>, "FetchFail", nl.out, <<>>)
          /\ UNCHANGED <<kluster, namespace, current_selection>>

Nodes(regexArg, resp, sort, reverse) ==
    /\ AtPrompt
    /\ UNCHANGED <<log_vars, pf_vars>>
    /\ LET rx == get_regex(regexArg)
       IN IF ~rx.ok
          THEN /\ obs' = Obs("nodes", <<>>, "BadRegex", <<Ev("stderr", NoObj, <<"invalid regex">>)>>, <<>>)
               /\ UNCHANGED <<kluster, namespace, current_selection, last_objs>>
          ELSE LET nl == run_on_kluster("get", NoObj, <<"nodes">>, resp)
               IN IF nl.res.ok
                  THEN LET final_list == print_nodelist(nl.res.items, rx.regex, sort, reverse)
                       IN /\ set_last_objs("Node", final_list.items)
                          /\ obs' = Obs("nodes", <<>>, "ok", nl.out, final_list.table)
                          /\ UNCHANGED <<kluster, namespace, current_selection>>
                  ELSE /\ clear_last_objs
                       /\ obs' = Obs("nodes", <<>>, "FetchFail", nl.out, <<>>)
                       /\ UNCHANGED <<kluster, namespace, current_selection>>

\* a services command that does not call clear_last_objs when the fetch fails
ServicesKeeps(regexArg, resp, sort, reverse) ==
    /\ AtPrompt
    /\ UNCHANGED <<log_vars, pf_vars>>
    /\ LET rx == get_regex(regexArg)
       IN IF ~rx.ok
          THEN /\ obs' = Obs("services", <<>>, "BadRegex", <<Ev("stderr", NoObj, <<"invalid regex">>)>>, <<>>)
               /\ UNCHANGED <<kluster, namespace, current_selection, last_objs>>
          ELSE LET sl == run_on_kluster("get", NoObj, NsUrl("services"), resp)
               IN IF sl.res.ok
                  THEN LET final_list == print_servicelist(sl.res.items, rx.regex, sort, reverse)
                       IN /\ set_last_objs("Service", final_list.items)
                          /\ obs' = Obs("services", <<>>, "ok", sl.out, final_list.table)
                          /\ UNCHANGED <<kluster, namespace, current_selection>>
                  ELSE /\ obs' = Obs("services", <<>>, "FetchFail", sl.out \o <<Ev("write", NoObj, <<"no services">>)>>, <<>>)
                       /\ UNCHANGED <<kluster, namespace, current_selection, last_objs>>

Services(regexArg, resp, sort, reverse) ==
    /\ AtPrompt
    /\ UNCHANGED <<log_vars, pf_vars>>
    /\ LET rx == get_regex(regexArg)
       IN IF ~rx.ok
          THEN /\ obs' = Obs("services", <<>>, "BadRegex", <<Ev("stderr", NoObj, <<"invalid regex">>)>>, <<>>)
               /\ UNCHANGED <<kluster, namespace, current_selection, last_objs>>
          ELSE LET sl == run_on_kluster("get", NoObj, NsUrl("services"), resp)
               IN IF sl.res.ok
                  THEN LET final_list == print_servicelist(sl.res.items, rx.regex, sort, reverse)
                       IN /\ set_last_objs("Service", final_list.items)
                          /\ obs' = Obs("services", <<>>, "ok", sl.out, final_list.table)
                          /\ UNCHANGED <<kluster, namespace, current_selection>>
                  ELSE /\ clear_last_objs
                       /\ obs' = Obs("services", <<>>, "FetchFail", sl.out \o <<Ev("write", NoObj, <<"no services">>)>>, <<>>)
                       /\ UNCHANGED <<kluster, namespace, current_selection>>

Deployments(regexArg, resp, sort, reverse) ==
    /\ AtPrompt
    /\ UNCHANGED <<log_vars, pf_vars>>
    /\ LET rx == get_regex(regexArg)
       IN IF ~rx.ok
          THEN /\ obs' = Obs("deployments", <<>>, "BadRegex", <<Ev("stderr", NoObj, <<"invalid regex">>)>>, <<>>)
               /\ UNCHANGED <<kluster, namespace, current_selection, last_objs>>
          ELSE LET dl == run_on_kluster("get", NoObj, NsUrl("deployments"), resp)
               IN IF dl.res.ok
                  THEN LET final_list == print_deployments(dl.res.items, rx.regex, sort, reverse)
                       IN /\ set_last_objs("Deployment", final_list.items)
                          /\ obs' = Obs("deployments", <<>>, "ok", dl.out, final_list.table)
                          /\ UNCHANGED <<kluster, namespace, current_selection>>
                  ELSE /\ clear_last_objs
                       /\ obs' = Obs("deployments", <<>>, "FetchFail", dl.out, <<>>)
                       /\ UNCHANGED <<kluster, namespace, current_selection>>

ReplicaSets(regexArg, resp) ==
    /\ AtPrompt
    /\ UNCHANGED <<log_vars, pf_vars>>
    /\ LET rx == get_regex(regexArg)
       IN IF ~rx.ok
          THEN /\ obs' = Obs("replicasets", <<>>, "BadRegex", <<Ev("stderr", NoObj, <<"invalid regex">>)>>, <<>>)
               /\ UNCHANGED <<kluster, namespace, current_selection, last_objs>>
          ELSE LET rsl == run_on_kluster("get", NoObj, NsUrl("replicasets"), resp)
               IN IF rsl.res.ok
                  THEN LET final_list == print_replicasets(rsl.res.items, rx.regex)
                       IN /\ set_last_objs("ReplicaSet", final_list.items)
                          /\ obs' = Obs("replicasets", <<>>, "ok", rsl.out, final_list.table)
                          /\ UNCHANGED <<kluster, namespace, current_selection>>
                  ELSE /\ clear_last_objs
                       /\ obs' = Obs("replicasets", <<>>, "FetchFail", rsl.out, <<>>)
                       /\ UNCHANGED <<kluster, namespace, current_selection>>

StatefulSets(regexArg, resp) ==
    /\ AtPrompt
    /\ UNCHANGED <<log_vars, pf_vars>>
    /\ LET rx == get_regex(regexArg)
       IN IF ~rx.ok
          THEN /\ obs' = Obs("statefulsets", <<>>, "BadRegex", <<Ev("stderr", NoObj, <<"invalid regex">>)>>, <<>>)
               /\ UNCHANGED <<kluster, namespace, current_selection, last_objs>>
          ELSE LET statefulset_list == run_on_kluster("get", NoObj, NsUrl("statefulsets"), resp)
               IN IF statefulset_list.res.ok
                  THEN LET final_list == print_statefulsets(statefulset_list.res.items, rx.regex)
                       IN /\ set_last_objs("StatefulSet", final_list.items)
                          /\ obs' = Obs("statefulsets", <<>>, "ok", statefulset_list.out, final_list.table)
                          /\ UNCHANGED <<kluster, namespace, current_selection>>
                  ELSE /\ clear_last_objs
                       /\ obs' = Obs("statefulsets", <<>>, "FetchFail", statefulset_list.out, <<>>)
                       /\ UNCHANGED <<kluster, namespace, current_selection>>

ConfigMaps(regexArg, resp) ==
    /\ AtPrompt
    /\ UNCHANGED <<log_vars, pf_vars>>
    /\ LET rx == get_regex(regexArg)
       IN IF ~rx.ok
          THEN /\ obs' = Obs("configmaps", <<>>, "BadRegex", <<Ev("stderr", NoObj, <<"invalid regex">>)>>, <<>>)
               /\ UNCHANGED <<kluster, namespace, current_selection, last_objs>>
          ELSE LET cml == run_on_kluster("get", NoObj, NsUrl("configmaps"), resp)
               IN IF cml.res.ok
                  THEN LET final_list == print_configmaps(cml.res.items, rx.regex)
                       IN /\ set_last_objs("ConfigMap", final_list.items)
                          /\ obs' = Obs("configmaps", <<>>, "ok", cml.out, final_list.table)
                          /\ UNCHANGED <<kluster, namespace, current_selection>>
                  ELSE /\ clear_last_objs
                       /\ obs' = Obs("configmaps", <<>>, "FetchFail", cml.out, <<>>)
                       /\ UNCHANGED <<kluster, namespace, current_selection>>

Secrets(regexArg, resp) ==
    /\ AtPrompt
    /\ UNCHANGED <<log_vars, pf_vars>>
    /\ LET rx == get_regex(regexArg)
       IN IF ~rx.ok
          THEN /\ obs' = Obs("secrets", <<>>, "BadRegex", <<Ev("stderr", NoObj, <<"invalid regex">>)>>, <<>>)
               /\ UNCHANGED <<kluster, namespace, current_selection, last_objs>>
          ELSE LET sl == run_on_kluster("get", NoObj, NsUrl("secrets"), resp)
               IN IF sl.res.ok
                  THEN LET final_list == print_secrets(sl.res.items, rx.regex)
                       IN /\ set_last_objs("Secret", final_list.items)
                          /\ obs' = Obs("secrets", <<>>, "ok", sl.out, final_list.table)
                          /\ UNCHANGED <<kluster, namespace, current_selection>>
                  ELSE /\ clear_last_objs
                       /\ obs' = Obs("secrets", <<>>, "FetchFail", sl.out, <<>>)
                       /\ UNCHANGED <<kluster, namespace, current_selection>>

Jobs(regexArg, resp) ==
    /\ AtPrompt
    /\ UNCHANGED <<log_vars, pf_vars>>
    /\ LET rx == get_regex(regexArg)
       IN IF ~rx.ok
          THEN /\ obs' = Obs("jobs", <<>>, "BadRegex", <<Ev("stderr", NoObj, <<"invalid regex">>)>>, <<>>)
               /\ UNCHANGED <<kluster, namespace, current_selection, last_objs>>
          ELSE LET jl == run_on_kluster("get", NoObj, NsUrl("jobs"), resp)
               IN IF jl.res.ok
                  THEN LET final_list == print_jobs(jl.res.items, rx.regex)
                       IN /\ set_last_objs("Job", final_list.items)
                          /\ obs' = Obs("jobs", <<>>, "ok", jl.out, final_list.table)
                          /\ UNCHANGED <<kluster, namespace, current_selection>>
                  ELSE /\ clear_last_objs
                       /\ obs' = Obs("jobs", <<>>, "FetchFail", jl.out, <<>>)
                       /\ UNCHANGED <<kluster, namespace, current_selection>>

\* namespaces: prints the namespaces; the listing is not recorded
NamespacesCmd(regexArg, resp) ==
    /\ AtPrompt
    /\ UNCHANGED <<log_vars, pf_vars>>
    /\ LET rx == get_regex(regexArg)
       IN IF ~rx.ok
          THEN /\ obs' = Obs("namespaces", <<>>, "BadRegex", <<Ev("stderr", NoObj, <<"invalid regex">>)>>, <<>>)
               /\ UNCHANGED <<kluster, namespace, current_selection, last_objs>>
          ELSE LET nl == run_on_kluster("get", NoObj, <<"namespaces">>, resp)
               IN IF nl.res.ok
                  THEN /\ obs' = Obs("namespaces", <<>>, "ok", nl.out, print_namespaces(nl.res.items, rx.regex))
                       /\ UNCHANGED <<kluster, namespace, current_selection, last_objs>>
                  ELSE /\ obs' = Obs("namespaces", <<>>, "FetchFail", nl.out, <<>>)
                       /\ UNCHANGED <<kluster, namespace, current_selection, last_objs>>

----------------------------------------------------------------------------
(* The actions the selection-dependent commands apply to each object *)

\* what the cluster may answer to a call on one object
CallResponses == {[ok |-> TRUE, items |-> <<>>], FetchFail}

\* do_logs: the log request is opened on the cluster; when it opens, the
\* stream is delivered
do_logs(obj, resp) ==
    LET logs_reader == run_on_kluster("get_read", obj, <<"log">>, resp)
    IN logs_reader.out
       \o (IF logs_reader.res.ok
           THEN <<Ev("stream", obj, <<>>)>> ELSE <<>>)

\* obj.describe(): fetches the object and prints its description
describe(obj, resp) ==
    LET d == run_on_kluster("get", obj, <<"describe">>, resp)
    IN d.out \o (IF d.res.ok THEN <<Ev("write", obj, <<"description">>)>> ELSE <<>>)

\* do_exec: spawns kubectl exec (in a terminal or in the foreground)
do_exec(pod) == <<Ev("spawn", pod, <<"kubectl", "exec">>)>>

\* an answer that confirms only without surrounding whitespace
AffirmativeUntrimmed(conf) == conf = <<"y">> \/ conf = <<"y", "e", "s">>

\* conf.trim() == "y" || conf.trim() == "yes"
Affirmative(conf) == trim(conf) = <<"y">> \/ trim(conf) = <<"y", "e", "s">>

\* delete_obj: asks for confirmation, reads a line and deletes when the line
\* confirms; an object other than a node needs a namespace to be asked about
delete_obj(obj, conf, resp) ==
    IF obj.typ # "Node" /\ obj.namespace = NoNamespace
    THEN <<Ev("write", obj, <<"Don't know namespace">>)>>
    ELSE <<Ev("prompt", obj, <<"Delete [y/N]?">>)>>
         \o (IF ~conf.ok
             THEN <<Ev("stderr", obj, <<"Could not read response, not deleting.">>)>>
             ELSE <<Ev("read", obj, conf.text)>>
                  \o (IF Affirmative(conf.text)
                      THEN LET result == run_on_kluster("delete", obj, <<"delete">>, resp)
                           IN result.out
                              \o <<Ev("write", obj,
                                      <<IF result.res.ok
                                        THEN "Deleted" ELSE "Failed to delete">>)>>
                      ELSE <<Ev("write", obj, <<"Not deleting">>)>>))

print_containers(obj, resp) ==
    LET pod_opt == run_on_kluster("get", obj, <<"pod">>, resp)
    IN pod_opt.out
       \o (IF pod_opt.res.ok
           THEN <<Ev("write", obj, <<"containers">>)>> ELSE <<>>)

print_events(obj, resp) ==
    LET oel == run_on_kluster("get", obj, <<"events">>, resp)
    IN oel.out
       \o <<Ev("write", obj,
               <<IF oel.res.ok THEN "events" ELSE "Failed to fetch events">>)>>

----------------------------------------------------------------------------
(* The selection-dependent commands *)

\* range: one table row per selected object, no separator
Range ==
    /\ AtPrompt
    /\ UNCHANGED <<log_vars, pf_vars>>
    /\ LET r == apply_to_selection(current_selection, NoSeparator,
                                   [k \in DOMAIN current_selection.objs |-> <<Ev("row", current_selection.objs[k], <<>>)>>])
       IN /\ obs' = Obs("range", <<>>, r.err, r.out, <<>>)
          /\ UNCHANGED <<kluster, namespace, current_selection, last_objs>>

Logs(resp) ==
    /\ AtPrompt
    /\ UNCHANGED <<log_vars, pf_vars>>
    /\ LET r == apply_to_selection(current_selection, range_separator,
                   [k \in DOMAIN current_selection.objs |->
                       IF is_pod(current_selection.objs[k]) THEN do_logs(current_selection.objs[k], resp)
                       ELSE <<Ev("write", current_selection.objs[k], <<"Logs only available on a pod">>)>>])
       IN /\ obs' = Obs("logs", <<>>, r.err, r.out, <<>>)
          /\ UNCHANGED <<kluster, namespace, current_selection, last_objs>>

\* a describe command that describes only the first object of the selection
DescribeFirst(resp) ==
    /\ AtPrompt
    /\ UNCHANGED <<log_vars, pf_vars>>
    /\ LET first == IF current_selection.tag = "Range"
                    THEN SelSingle(current_selection.objs[1])
                    ELSE current_selection
           r == apply_to_selection(first, range_separator,
                                   [k \in DOMAIN first.objs |-> describe(first.objs[k], resp)])
       IN /\ obs' = Obs("describe", <<>>, r.err, r.out, <<>>)
          /\ UNCHANGED <<kluster, namespace, current_selection, last_objs>>

Describe(resp) ==
    /\ AtPrompt
    /\ UNCHANGED <<log_vars, pf_vars>>
    /\ LET r == apply_to_selection(current_selection, range_separator,
                                   [k \in DOMAIN current_selection.objs |-> describe(current_selection.objs[k], resp)])
       IN /\ obs' = Obs("describe", <<>>, r.err, r.out, <<>>)
          /\ UNCHANGED <<kluster, namespace, current_selection, last_objs>>

\* exec needs an active context before it looks at the selection
Exec ==
    /\ AtPrompt
    /\ UNCHANGED <<log_vars, pf_vars>>
    /\ IF kluster # NoKluster
       THEN LET r == apply_to_selection(current_selection, range_separator,
                       [k \in DOMAIN current_selection.objs |->
                           IF is_pod(current_selection.objs[k]) THEN do_exec(current_selection.objs[k])
                           ELSE <<Ev("write", current_selection.objs[k], <<"Exec only possible on pods">>)>>])
            IN /\ obs' = Obs("exec", <<>>, r.err, r.out, <<>>)
               /\ UNCHANGED <<kluster, namespace, current_selection, last_objs>>
       ELSE /\ obs' = Obs("exec", <<>>, "NoContext",
                          <<Ev("stderr", NoObj, <<"Need an active context in order to exec.">>)>>,
                          <<>>)
            /\ UNCHANGED <<kluster, namespace, current_selection, last_objs>>

\* a delete that stops at the first object the operator does not confirm
DeleteUntilDeclined(conf, resp) ==
    /\ AtPrompt
    /\ UNCHANGED <<log_vars, pf_vars>>
    /\ LET objs == current_selection.objs
           upto == IF \E k \in DOMAIN objs : ~Affirmative(conf[k].text)
                   THEN CHOOSE k \in DOMAIN objs :
                            /\ ~Affirmative(conf[k].text)
                            /\ \A j \in 1..(k - 1) : Affirmative(conf[j].text)
                   ELSE Len(objs)
           sel == [current_selection EXCEPT !.objs = SubSeq(objs, 1, upto)]
           r == apply_to_selection(sel, range_separator,
                                   [k \in DOMAIN sel.objs |-> delete_obj(sel.objs[k], conf[k], resp[k])])
       IN /\ obs' = Obs("delete", <<>>, r.err, r.out, <<>>)
          /\ UNCHANGED <<kluster, namespace, current_selection, last_objs>>

\* delete: conf[k] is what the operator answers to the k-th prompt, resp[k]
\* what the cluster answers to the k-th delete call
Delete(conf, resp) ==
    /\ AtPrompt
    /\ UNCHANGED <<log_vars, pf_vars>>
    /\ LET r == apply_to_selection(current_selection, range_separator,
                                   [k \in DOMAIN current_selection.objs |-> delete_obj(current_selection.objs[k], conf[k], resp[k])])
       IN /\ obs' = Obs("delete", <<>>, r.err, r.out, <<>>)
          /\ UNCHANGED <<kluster, namespace, current_selection, last_objs>>

Containers(resp) ==
    /\ AtPrompt
    /\ UNCHANGED <<log_vars, pf_vars>>
    /\ LET r == apply_to_selection(current_selection, range_separator,
                   [k \in DOMAIN current_selection.objs |->
                       IF is_pod(current_selection.objs[k]) THEN print_containers(current_selection.objs[k], resp)
                       ELSE <<Ev("write", current_selection.objs[k], <<"containers only possible on a Pod">>)>>])
       IN /\ obs' = Obs("containers", <<>>, r.err, r.out, <<>>)
          /\ UNCHANGED <<kluster, namespace, current_selection, last_objs>>

Events(resp) ==
    /\ AtPrompt
    /\ UNCHANGED <<log_vars, pf_vars>>
    /\ LET r == apply_to_selection(current_selection, range_separator,
                                   [k \in DOMAIN current_selection.objs |-> print_events(current_selection.objs[k], resp)])
       IN /\ obs' = Obs("events", <<>>, r.err, r.out, <<>>)
          /\ UNCHANGED <<kluster, namespace, current_selection, last_objs>>

----------------------------------------------------------------------------
(* The logs command, statement by statement: its arguments and objects *)

\* a stream delivers at most MaxSource units, lines in console mode and
\* bytes in file mode, numbered 1, 2, ... in the order the source sends them
MaxSource == 3

\* the length of the buffer write_logs_to_file reads into (1024 in the
\* source), in units
BufferLen == 2

\* the containers a pod declares, in declared order
ContainerLists == {<<>>, <<"app">>, <<"app", "sidecar">>}

\* a KObj of ObjType::Pod { containers }
LogPod(name, containers) ==
    [typ |-> "Pod", name |-> name, namespace |-> "ns1", containers |-> containers]

\* a KObj of ObjType::Node
LogNode(name) ==
    [typ |-> "Node", name |-> name, namespace |-> NoNamespace, containers |-> <<>>]

\* a pod the listing gave no namespace for
NoNsPod(name, containers) == [LogPod(name, containers) EXCEPT !.namespace = NoNamespace]

\* what logs is run on: one pod, or a range of two; a node, or a pod without
\* a namespace, followed by a pod
LogSelections ==
    {SelSingle(LogPod(1, c)) : c \in ContainerLists}
    \cup {SelRange(<<LogPod(1, c), LogPod(2, d)>>) : c, d \in ContainerLists}
    \cup {SelRange(<<LogNode(1), LogPod(2, <<"app">>)>>),
          SelRange(<<NoNsPod(1, <<"app", "sidecar">>), LogPod(2, <<"app">>)>>)}

Lit(text) == [kind |-> "lit", text |-> text]

Field(name) == [kind |-> "field", text |-> name]

\* --output: a path that may hold {fields}
OutputArgs ==
    {<<Field("name"), Lit("-"), Field("namespace"), Lit(".log")>>,
     <<Lit("logs.txt")>>,
     <<Field("bogus"), Lit(".log")>>}

\* a strfmt that leaves a field it does not know as it is written
strfmt_lenient(output, fmtvars) ==
    [ok |-> TRUE,
     path |-> [i \in DOMAIN output |->
                 IF output[i].kind = "field" /\ output[i].text \in DOMAIN fmtvars
                 THEN fmtvars[output[i].text] ELSE output[i].text]]

\* strfmt(output, &fmtvars): every {field} is replaced by its value; a field
\* that fmtvars does not hold is an error
strfmt(output, fmtvars) ==
    IF \E i \in DOMAIN output :
          output[i].kind = "field" /\ output[i].text \notin DOMAIN fmtvars
    THEN [ok |-> FALSE, path |-> <<>>]
    ELSE [ok |-> TRUE,
          path |-> [i \in DOMAIN output |->
                      IF output[i].kind = "field"
                      THEN fmtvars[output[i].text] ELSE output[i].text]]

\* the name of a pod as text
NameStr(name) == IF name = 1 THEN "pod1" ELSE "pod2"

\* The arguments of one logs command and the settings it reads: the
\* container argument, --output, --editor [ARG], click_config.editor, the
\* EDITOR variable of the environment and env.tempdir; --follow is not given.
LogArgs(container, output, editor, editor_opt, config_editor, env_editor, tempdir) ==
    [container |-> container, output |-> output, editor |-> editor,
     editor_opt |-> editor_opt, config_editor |-> config_editor,
     env_editor |-> env_editor, tempdir |-> tempdir, follow |-> FALSE]

ContainerArgs == {NoArg, "other"}

\* --output, --editor and --follow conflict with one another
LogRequests ==
    {LogArgs(c, <<>>, FALSE, NoArg, NoArg, NoArg, TRUE) : c \in ContainerArgs}
    \cup {[LogArgs(c, <<>>, FALSE, NoArg, NoArg, NoArg, TRUE) EXCEPT !.follow = TRUE] :
            c \in ContainerArgs}
    \cup {LogArgs(c, o, FALSE, NoArg, NoArg, NoArg, TRUE) :
            c \in ContainerArgs, o \in OutputArgs}
    \cup {LogArgs(c, <<>>, TRUE, e, ce, ee, td) :
            c \in ContainerArgs, e \in {NoArg, "vi -R"}, ce \in {NoArg, "emacs"},
            ee \in {NoArg, "nano"}, td \in BOOLEAN}

NoLogs == LogArgs(NoArg, <<>>, FALSE, NoArg, NoArg, NoArg, TRUE)

\* something written: to the writer ("warn", "msg", "line"), or to stdout
Wr(kind, text, unit) == [kind |-> kind, text |-> text, unit |-> unit]

NoFile == [state |-> "none", content |-> <<>>, flushed |-> FALSE]

NoSrc == [sent |-> 0, end |-> "open"]

\* do_logs on the object at position idx of the selection.  `invoked` lists
\* the objects the closure of Logs was called on so far and `failed` those
\* of them it reported a failure for, `entry` is what
\* ctrlcbool held when do_logs was called, `interrupted` tells whether
\* an interrupt came since, `by` names, for every line written, the call
\* whose thread read it, `eargs` is the command line of the editor
\* started, and `cancelled` lists the objects whose stream the flag stopped.
LgAt(idx, pc) ==
    [pc |-> pc, idx |-> idx, cont |-> NoArg, path |-> <<>>, editor |-> NoArg,
     opens |-> 0, src |-> NoSrc, buf |-> <<>>, file |-> NoFile, out |-> <<>>,
     started |-> NoArg, after |-> 0, stop |-> "no", how |-> "running",
     invoked |-> <<>>, failed |-> <<>>, entry |-> FALSE, interrupted |-> FALSE,
     by |-> <<>>, eargs |-> <<>>, cancelled |-> <<>>]

NoChan == [queue |-> <<>>, tx |-> FALSE, rx |-> FALSE]

\* a thread spawned by the do_logs call on the object at position owner: where
\* it is, the line it holds, and what it has read of its stream
Thread(pc, owner) == [pc |-> pc, line |-> 0, src |-> NoSrc, owner |-> owner]

\* the thread of the current call, and the thread an earlier call of the
\* same command left behind
Threads(pc, owner, earlier) ==
    [pc |-> pc, line |-> 0, src |-> NoSrc, owner |-> owner, earlier |-> earlier]

NoProd == Threads("none", 0, Thread("none", 0))

\* no logs command is running
LogsIdle ==
    /\ ctrlcbool = FALSE
    /\ logs_req = NoLogs
    /\ lg = LgAt(0, "done")
    /\ chan = NoChan
    /\ prod = NoProd

----------------------------------------------------------------------------
(* do_logs *)

\* the ways the closure of Logs returns after it reported a failure: the
\* object is not a pod, the request gave no reader, the stream or the file
\* failed, the output path or the editor could not be worked out
Failures ==
    {"NotAPod", "NoReader", "Transport", "Io", "PathTemplateError",
     "NoEditorConfigured", "NoTempdir", "EditorStartError"}

\* do_logs has returned with outcome how; apply_to_selection goes on to the
\* next object of the selection, if there is one.  What do_logs wrote for
\* the object it returned from stays in lg until it is called again.
Returned(l, how) ==
    LET failed == IF how \in Failures THEN Append(l.failed, l.idx) ELSE l.failed
        cancelled == IF l.stop = "cancelled" THEN Append(l.cancelled, l.idx)
                     ELSE l.cancelled
    IN IF l.idx < Len(current_selection.objs)
       THEN [l EXCEPT !.how = how, !.failed = failed, !.cancelled = cancelled,
                      !.pc = "next", !.idx = l.idx + 1]
       ELSE [l EXCEPT !.how = how, !.failed = failed, !.cancelled = cancelled,
                      !.pc = "done"]

\* pick_container: warns when the pod has several containers and takes
\* containers[0], which panics when the pod has none
pick_container(obj) ==
    [panic |-> obj.containers = <<>>,
     out |-> IF Len(obj.containers) > 1
             THEN <<Wr("warn", "Pod has multiple containers, picking the first one", 0)>>
             ELSE <<>>,
     cont |-> IF obj.containers = <<>> THEN NoArg ELSE obj.containers[1]]

\* an editor choice that prefers the EDITOR variable to click_config.editor
EditorForEnvFirst(req) ==
    IF req.editor_opt # NoArg THEN req.editor_opt
    ELSE IF req.env_editor # NoArg THEN req.env_editor
    ELSE req.config_editor

\* the editor of editor mode: --editor ARG, else click_config.editor, else
\* the EDITOR variable
EditorFor(req) ==
    IF req.editor_opt # NoArg THEN req.editor_opt
    ELSE IF req.config_editor # NoArg THEN req.config_editor
    ELSE req.env_editor

\* a do_logs that resets ctrlcbool for the first object of a selection only
reset_ctrlcbool_on_first ==
    IF lg.idx = 1 THEN ctrlcbool' = FALSE ELSE UNCHANGED ctrlcbool

\* a do_logs that leaves ctrlcbool as it finds it
reset_ctrlcbool_never == UNCHANGED ctrlcbool

\* env.ctrlcbool.store(false, Ordering::SeqCst)
reset_ctrlcbool == ctrlcbool' = FALSE

\* the closure of Logs called on the object at lg.idx
Entered ==
    [LgAt(lg.idx, "begin") EXCEPT
        !.invoked = Append(lg.invoked, lg.idx), !.failed = lg.failed,
        !.cancelled = lg.cancelled, !.entry = ctrlcbool]

\* the closure of Logs on an object that is not a pod
logs_not_a_pod ==
    /\ lg.pc = "next"
    /\ ~is_pod(current_selection.objs[lg.idx])
    /\ lg' = Returned([Entered EXCEPT
                          !.out = <<Wr("msg", "Logs only available on a pod", 0)>>],
                      "NotAPod")
    /\ UNCHANGED <<ctrlcbool, logs_req, chan, prod, session_vars, pf_vars>>

\* do_logs up to the point where the stream is consumed: the container, the
\* url (which needs the namespace), the request (logs_reader is None when
\* reader is FALSE), the reset of ctrlcbool, and the choice of the output by
\* --output and --editor
do_logs_begin(reader) ==
    /\ lg.pc = "next"
    /\ is_pod(current_selection.objs[lg.idx])
    /\ LET obj == current_selection.objs[lg.idx]
           picked == pick_container(obj)
           picks == logs_req.container = NoArg
           cont == IF picks THEN picked.cont ELSE logs_req.container
           called == [Entered EXCEPT
                         !.cont = cont,
                         !.out = IF picks THEN picked.out ELSE <<>>,
                         !.opens = 1]
           fmtvars == [name |-> NameStr(obj.name),
                       namespace |-> IF obj.namespace = NoNamespace
                                     THEN "[none]" ELSE obj.namespace,
                       time |-> "now"]
           file_path == strfmt(logs_req.output, fmtvars)
           editor == EditorFor(logs_req)
       IN IF picks /\ picked.panic
          THEN /\ lg' = [Entered EXCEPT !.pc = "panic", !.how = "panic"]
               /\ UNCHANGED <<ctrlcbool, chan, prod>>
          ELSE IF obj.namespace = NoNamespace
          THEN /\ lg' = [Entered EXCEPT !.pc = "panic", !.how = "panic",
                                        !.cont = cont,
                                        !.out = IF picks THEN picked.out ELSE <<>>]
               /\ UNCHANGED <<ctrlcbool, chan, prod>>
          ELSE IF ~reader
          THEN /\ lg' = Returned(called, "NoReader")
               /\ UNCHANGED <<ctrlcbool, chan, prod>>
          ELSE /\ reset_ctrlcbool
               /\ IF logs_req.output # <<>>
                  THEN /\ lg' = IF file_path.ok
                                THEN [called EXCEPT !.pc = "create", !.path = file_path.path]
                                ELSE Returned([called EXCEPT !.out = @ \o
                                        <<Wr("msg", "Can't generate output path", 0)>>],
                                        "PathTemplateError")
                       /\ UNCHANGED <<chan, prod>>
                  ELSE IF logs_req.editor
                  THEN /\ lg' = IF editor = NoArg
                                THEN Returned([called EXCEPT !.out = @ \o
                                        <<Wr("msg", "Could not get EDITOR environment variable", 0)>>],
                                        "NoEditorConfigured")
                                ELSE IF ~logs_req.tempdir
                                THEN Returned([called EXCEPT !.out = @ \o
                                        <<Wr("msg", "Failed to create tempdir", 0)>>],
                                        "NoTempdir")
                                ELSE [called EXCEPT
                                        !.pc = "create", !.editor = editor,
                                        !.path = <<"tmpdir", NameStr(obj.name), "_",
                                                   cont, "_", "now", ".log">>]
                       /\ UNCHANGED <<chan, prod>>
                  ELSE /\ lg' = [called EXCEPT !.pc = "console"]
                       /\ chan' = [queue |-> <<>>, tx |-> TRUE, rx |-> TRUE]
                       /\ prod' = Threads("read_line", lg.idx,
                                          IF prod.pc = "none" THEN prod.earlier
                                          ELSE [pc |-> prod.pc, line |-> prod.line,
                                                src |-> prod.src, owner |-> prod.owner])
    /\ UNCHANGED <<logs_req, session_vars, pf_vars>>

\* a do_logs whose failure to write the file ends the whole command
AfterWriteAborts(l, res) ==
    IF res # "Ok"
    THEN [l EXCEPT !.out = @ \o <<Wr("msg", "Error writing logs to file", 0)>>,
                   !.how = res, !.failed = Append(@, l.idx), !.pc = "done"]
    ELSE IF logs_req.editor
    THEN [l EXCEPT !.pc = "start",
                   !.out = @ \o <<Wr("msg", "Logs downloaded, starting editor", 0)>>]
    ELSE Returned([l EXCEPT !.out = @ \o <<Wr("stdout", "Wrote logs to", 0)>>], "Ok")

\* a do_logs that goes on to the editor whatever write_logs_to_file returned
AfterWriteStartsAnyway(l, res) ==
    IF logs_req.editor
    THEN [l EXCEPT !.pc = "start",
                   !.out = @ \o <<Wr("msg", "Logs downloaded, starting editor", 0)>>]
    ELSE IF res # "Ok"
    THEN Returned([l EXCEPT !.out = @ \o <<Wr("msg", "Error writing logs to file", 0)>>],
                  res)
    ELSE Returned([l EXCEPT !.out = @ \o <<Wr("stdout", "Wrote logs to", 0)>>], "Ok")

\* do_logs after write_logs_to_file returned res: "Ok", or the error
AfterWrite(l, res) ==
    IF res # "Ok"
    THEN Returned([l EXCEPT !.out = @ \o <<Wr("msg", "Error writing logs to file", 0)>>],
                  res)
    ELSE IF logs_req.editor
    THEN [l EXCEPT !.pc = "start",
                   !.out = @ \o <<Wr("msg", "Logs downloaded, starting editor", 0)>>]
    ELSE Returned([l EXCEPT !.out = @ \o <<Wr("stdout", "Wrote logs to", 0)>>], "Ok")

\* file.flush() and the drop of the file when write_logs_to_file returns
Flushed(f) == [f EXCEPT !.flushed = TRUE, !.state = "closed"]

\* the drop of the file when write_logs_to_file returns an error with `?`
Dropped(f) == [f EXCEPT !.state = "closed"]

\* write_logs_to_file: File::create(path)?
write_logs_to_file_create(ok) ==
    /\ lg.pc = "create"
    /\ lg' = IF ok
             THEN [lg EXCEPT !.pc = "check",
                             !.file = [state |-> "open", content |-> <<>>,
                                       flushed |-> FALSE]]
             ELSE AfterWrite([lg EXCEPT !.stop = "error"], "Io")
    /\ UNCHANGED <<ctrlcbool, logs_req, chan, prod, session_vars, pf_vars>>

\* a write_logs_to_file that never looks at ctrlcbool
write_logs_to_file_check_never ==
    /\ lg.pc = "check"
    /\ lg' = [lg EXCEPT !.pc = "read"]
    /\ UNCHANGED <<ctrlcbool, logs_req, chan, prod, session_vars, pf_vars>>

\* write_logs_to_file: while !env.ctrlcbool.load(..), and file.flush() after
\* the loop
write_logs_to_file_check ==
    /\ lg.pc = "check"
    /\ lg' = IF ctrlcbool
             THEN AfterWrite([lg EXCEPT !.file = Flushed(@), !.stop = "cancelled"], "Ok")
             ELSE [lg EXCEPT !.pc = "read"]
    /\ UNCHANGED <<ctrlcbool, logs_req, chan, prod, session_vars, pf_vars>>

\* a write_logs_to_file that takes the end of the stream for an error
write_logs_to_file_read_eof_fails(ok, amt) ==
    /\ lg.pc = "read"
    /\ ~ok => amt = 0
    /\ lg.src.sent + amt <= MaxSource
    /\ lg' = IF ~ok
             THEN AfterWrite([lg EXCEPT !.src.end = "err", !.file = Dropped(@),
                                        !.stop = "error"], "Transport")
             ELSE IF amt = 0
             THEN AfterWrite([lg EXCEPT !.src.end = "eof", !.file = Dropped(@),
                                        !.stop = "eof"], "Io")
             ELSE [lg EXCEPT !.pc = "write",
                             !.src.sent = @ + amt,
                             !.buf = [i \in 1..amt |-> lg.src.sent + i]]
    /\ UNCHANGED <<ctrlcbool, logs_req, chan, prod, session_vars, pf_vars>>

\* write_logs_to_file: reader.read(&mut buffer[..])?, which fails, or reads
\* nothing at the end of the stream, or reads amt units, at most BufferLen
write_logs_to_file_read(ok, amt) ==
    /\ lg.pc = "read"
    /\ ~ok => amt = 0
    /\ lg.src.sent + amt <= MaxSource
    /\ lg' = IF ~ok
             THEN AfterWrite([lg EXCEPT !.src.end = "err", !.file = Dropped(@),
                                        !.stop = "error"], "Transport")
             ELSE IF amt = 0
             THEN AfterWrite([lg EXCEPT !.src.end = "eof", !.file = Flushed(@),
                                        !.stop = "eof"], "Ok")
             ELSE [lg EXCEPT !.pc = "write",
                             !.src.sent = @ + amt,
                             !.buf = [i \in 1..amt |-> lg.src.sent + i]]
    /\ UNCHANGED <<ctrlcbool, logs_req, chan, prod, session_vars, pf_vars>>

\* a write_logs_to_file that calls file.write once, which may write less
\* than it is given (here: the first unit)
write_logs_to_file_write_short(ok, written) ==
    /\ lg.pc = "write"
    /\ IF ok THEN written = Len(lg.buf) ELSE written < Len(lg.buf)
    /\ lg' = IF ok
             THEN [lg EXCEPT !.pc = "check",
                             !.file.content = @ \o SubSeq(lg.buf, 1, 1),
                             !.buf = <<>>,
                             !.after = IF ctrlcbool THEN @ + 1 ELSE @]
             ELSE AfterWrite([lg EXCEPT !.file.content = @ \o SubSeq(lg.buf, 1, written),
                                        !.file.state = "closed",
                                        !.stop = "error"], "Io")
    /\ UNCHANGED <<ctrlcbool, logs_req, chan, prod, session_vars, pf_vars>>

\* write_logs_to_file: file.write_all(&buffer[0..amt])?, which on an error
\* may have written the first `written` units of the buffer
write_logs_to_file_write(ok, written) ==
    /\ lg.pc = "write"
    /\ IF ok THEN written = Len(lg.buf) ELSE written < Len(lg.buf)
    /\ lg' = IF ok
             THEN [lg EXCEPT !.pc = "check",
                             !.file.content = @ \o lg.buf,
                             !.buf = <<>>,
                             !.after = IF ctrlcbool THEN @ + 1 ELSE @]
             ELSE AfterWrite([lg EXCEPT !.file.content = @ \o SubSeq(lg.buf, 1, written),
                                        !.file.state = "closed",
                                        !.stop = "error"], "Io")
    /\ UNCHANGED <<ctrlcbool, logs_req, chan, prod, session_vars, pf_vars>>

\* editor.split_whitespace() of the editors of LogRequests
split_whitespace(editor) == IF editor = "vi -R" THEN <<"vi", "-R">> ELSE <<editor>>

\* the command line of the editor: the words of an editor that contains a
\* blank, else the editor as it is, and the path of the file after them
editor_expr(editor, file_path) ==
    IF Len(split_whitespace(editor)) > 1
    THEN Append(split_whitespace(editor), file_path)
    ELSE <<editor, file_path>>

\* editor mode: expr.start(), which does not wait for the editor to end
start_editor(ok) ==
    /\ lg.pc = "start"
    /\ lg' = IF ok
             THEN Returned([lg EXCEPT !.started = lg.editor,
                                      !.eargs = editor_expr(lg.editor, lg.path)], "Ok")
             ELSE Returned([lg EXCEPT !.out = @ \o <<Wr("msg", "Could not start editor", 0)>>],
                           "EditorStartError")
    /\ UNCHANGED <<ctrlcbool, logs_req, chan, prod, session_vars, pf_vars>>

\* console mode, the spawned thread: reader.read_line(&mut line), which
\* reads a line, or nothing at the end of the stream, or fails; the thread
\* ends, and drops the sender, when no line was read
producer_read_line(ok, amt) ==
    /\ prod.pc = "read_line"
    /\ ~ok => amt = 0
    /\ prod.src.sent + amt <= MaxSource
    /\ prod' = IF ok /\ amt > 0
               THEN [prod EXCEPT !.pc = "send", !.line = prod.src.sent + 1,
                                 !.src.sent = @ + 1]
               ELSE [prod EXCEPT !.pc = "exited",
                                 !.src.end = IF ok THEN "eof" ELSE "err"]
    /\ chan' = IF ok /\ amt > 0 THEN chan ELSE [chan EXCEPT !.tx = FALSE]
    /\ UNCHANGED <<ctrlcbool, logs_req, lg, session_vars, pf_vars>>

\* console mode, the spawned thread: sender.send(line), which fails once the
\* receiver is gone
producer_send ==
    /\ prod.pc = "send"
    /\ IF chan.rx
       THEN /\ chan' = [chan EXCEPT !.queue =
                            Append(@, [by |-> prod.owner, unit |-> prod.line])]
            /\ prod' = [prod EXCEPT !.pc = "read_line"]
       ELSE /\ chan' = [chan EXCEPT !.tx = FALSE]
            /\ prod' = [prod EXCEPT !.pc = "exited"]
    /\ UNCHANGED <<ctrlcbool, logs_req, lg, session_vars, pf_vars>>

\* the thread an earlier call left behind: reader.read_line(&mut line)
earlier_read_line(ok, amt) ==
    /\ prod.earlier.pc = "read_line"
    /\ ~ok => amt = 0
    /\ prod.earlier.src.sent + amt <= MaxSource
    /\ prod' = IF ok /\ amt > 0
               THEN [prod EXCEPT !.earlier.pc = "send",
                                 !.earlier.line = prod.earlier.src.sent + 1,
                                 !.earlier.src.sent = @ + 1]
               ELSE [prod EXCEPT !.earlier.pc = "exited",
                                 !.earlier.src.end = IF ok THEN "eof" ELSE "err"]
    /\ UNCHANGED <<ctrlcbool, logs_req, lg, chan, session_vars, pf_vars>>

\* a thread that sends into the channel of the call that runs now
earlier_send_shared ==
    /\ prod.earlier.pc = "send"
    /\ prod' = [prod EXCEPT !.earlier.pc = IF chan.rx THEN "read_line" ELSE "exited"]
    /\ chan' = IF chan.rx
               THEN [chan EXCEPT !.queue =
                        Append(@, [by |-> prod.earlier.owner, unit |-> prod.earlier.line])]
               ELSE chan
    /\ UNCHANGED <<ctrlcbool, logs_req, lg, session_vars, pf_vars>>

\* the thread an earlier call left behind: sender.send(line) on the sender
\* it was given, whose receiver went when that call returned
earlier_send ==
    /\ prod.earlier.pc = "send"
    /\ prod' = [prod EXCEPT !.earlier.pc = "exited"]
    /\ UNCHANGED <<ctrlcbool, logs_req, lg, chan, session_vars, pf_vars>>

\* a console loop that never looks at ctrlcbool
console_check_never ==
    /\ lg.pc = "console"
    /\ lg' = [lg EXCEPT !.pc = "recv"]
    /\ UNCHANGED <<ctrlcbool, logs_req, chan, prod, session_vars, pf_vars>>

\* console mode: while !env.ctrlcbool.load(..); do_logs returns after the
\* loop and the receiver is dropped
console_check ==
    /\ lg.pc = "console"
    /\ IF ctrlcbool
       THEN /\ lg' = Returned([lg EXCEPT !.stop = "cancelled"], "Ok")
            /\ chan' = [chan EXCEPT !.rx = FALSE]
       ELSE /\ lg' = [lg EXCEPT !.pc = "recv"]
            /\ UNCHANGED chan
    /\ UNCHANGED <<ctrlcbool, logs_req, prod, session_vars, pf_vars>>

\* a console loop that leaves on any Err of recv_timeout, Timeout included
console_recv_leaves_on_timeout ==
    /\ lg.pc = "recv"
    /\ IF chan.queue # <<>>
       THEN /\ lg' = [lg EXCEPT !.pc = "console",
                                !.out = Append(@, Wr("line", "", Head(chan.queue).unit)),
                                !.by = Append(@, Head(chan.queue).by),
                                !.after = IF ctrlcbool THEN @ + 1 ELSE @]
            /\ chan' = [chan EXCEPT !.queue = Tail(@)]
       ELSE /\ lg' = Returned([lg EXCEPT !.stop = "disconnected"], "Ok")
            /\ chan' = [chan EXCEPT !.rx = FALSE]
    /\ UNCHANGED <<ctrlcbool, logs_req, prod, session_vars, pf_vars>>

\* console mode: receiver.recv_timeout(1 s): a line, which is written; or
\* Disconnected, when the queue is empty and the sender is gone; or Timeout
console_recv ==
    /\ lg.pc = "recv"
    /\ IF chan.queue # <<>>
       THEN /\ lg' = [lg EXCEPT !.pc = "console",
                                !.out = Append(@, Wr("line", "", Head(chan.queue).unit)),
                                !.by = Append(@, Head(chan.queue).by),
                                !.after = IF ctrlcbool THEN @ + 1 ELSE @]
            /\ chan' = [chan EXCEPT !.queue = Tail(@)]
       ELSE IF ~chan.tx
       THEN /\ lg' = Returned([lg EXCEPT !.stop = "disconnected"], "Ok")
            /\ chan' = [chan EXCEPT !.rx = FALSE]
       ELSE /\ lg' = [lg EXCEPT !.pc = "console"]
            /\ UNCHANGED chan
    /\ UNCHANGED <<ctrlcbool, logs_req, prod, session_vars, pf_vars>>

\* an interrupt: the handler stores true in ctrlcbool
CtrlC ==
    /\ lg.pc \notin {"done", "panic"}
    /\ ~ctrlcbool
    /\ ctrlcbool' = TRUE
    /\ lg' = [lg EXCEPT !.after = 0, !.interrupted = TRUE]
    /\ UNCHANGED <<logs_req, chan, prod, session_vars, pf_vars>>

----------------------------------------------------------------------------
(* The session *)

Init ==
    /\ kluster \in {NoKluster} \cup Contexts
    /\ namespace = NoNamespace
    /\ current_selection = SelNone
    /\ last_objs = <<>>
    /\ obs = Idle
    /\ LogsIdle
    /\ port_forwards = <<>>
    /\ pf_obs = NoPf
    /\ pf_req = <<>>

SortArgs == {NoSort} \cup SortCols

\* the answers to the prompts of one command, one per selected object
ConfArgs == [1..Len(current_selection.objs) -> Answers]

Next ==
    \/ \E c \in Contexts \cup {NoArg} : Context(c)
    \/ Clear
    \/ \E ns \in Namespaces \cup {NoArg} : Namespace(ns)
    \/ \E i \in 0..MaxIndex : Select(i)
    \/ \E expr \in RangeExprs : SetRange(expr)
    \/ \E rx \in RegexArgs, resp \in ListResponses("Pod"),
          s \in SortArgs, rev \in BOOLEAN : Pods(rx, resp, s, rev)
    \/ \E rx \in RegexArgs, resp \in ListResponses("Node"),
          s \in SortArgs, rev \in BOOLEAN : Nodes(rx, resp, s, rev)
    \/ \E rx \in RegexArgs, resp \in ListResponses("Service"),
          s \in SortArgs, rev \in BOOLEAN : Services(rx, resp, s, rev)
    \/ \E rx \in RegexArgs, resp \in ListResponses("Deployment"),
          s \in SortArgs, rev \in BOOLEAN : Deployments(rx, resp, s, rev)
    \/ \E rx \in RegexArgs, resp \in ListResponses("ReplicaSet") : ReplicaSets(rx, resp)
    \/ \E rx \in RegexArgs, resp \in ListResponses("StatefulSet") : StatefulSets(rx, resp)
    \/ \E rx \in RegexArgs, resp \in ListResponses("ConfigMap") : ConfigMaps(rx, resp)
    \/ \E rx \in RegexArgs, resp \in ListResponses("Secret") : Secrets(rx, resp)
    \/ \E rx \in RegexArgs, resp \in ListResponses("Job") : Jobs(rx, resp)
    \/ \E rx \in RegexArgs, resp \in ListResponses("Namespace") : NamespacesCmd(rx, resp)
    \/ Range
    \/ \E resp \in CallResponses : Logs(resp)
    \/ \E resp \in CallResponses : Describe(resp)
    \/ Exec
    \/ \E conf \in ConfArgs, resp \in CallResponses :
          Delete(conf, [k \in DOMAIN current_selection.objs |-> resp])
    \/ \E resp \in CallResponses : Containers(resp)
    \/ \E resp \in CallResponses : Events(resp)
    \/ Prompt

Spec == Init /\ [][Next]_vars

\* the logs command on a selection of pods, with a context active
LogInit ==
    /\ kluster = "c1"
    /\ namespace = NoNamespace
    /\ current_selection \in LogSelections
    /\ last_objs = <<>>
    /\ obs = Idle
    /\ ctrlcbool \in BOOLEAN
    /\ logs_req \in LogRequests
    /\ lg = LgAt(1, "next")
    /\ chan = NoChan
    /\ prod = NoProd
    /\ port_forwards = <<>>
    /\ pf_obs = NoPf
    /\ pf_req = <<>>

LogNext ==
    \/ logs_not_a_pod
    \/ \E reader \in BOOLEAN : do_logs_begin(reader)
    \/ \E ok \in BOOLEAN : write_logs_to_file_create(ok)
    \/ write_logs_to_file_check
    \/ \E ok \in BOOLEAN, amt \in 0..BufferLen : write_logs_to_file_read(ok, amt)
    \/ \E ok \in BOOLEAN, written \in 0..BufferLen : write_logs_to_file_write(ok, written)
    \/ \E ok \in BOOLEAN : start_editor(ok)
    \/ \E ok \in BOOLEAN, amt \in 0..1 : producer_read_line(ok, amt)
    \/ producer_send
    \/ \E ok \in BOOLEAN, amt \in 0..1 : earlier_read_line(ok, amt)
    \/ earlier_send
    \/ console_check
    \/ console_recv
    \/ CtrlC

LogSpec == LogInit /\ [][LogNext]_vars

\* the timeout of the read of the stream: none with --follow, else 20 s
timeout == IF logs_req.follow THEN "None" ELSE "20s"

\* the logs command in console mode on one pod or on a range of two
ConsoleInit ==
    /\ LogInit
    /\ logs_req.output = <<>>
    /\ ~logs_req.editor
    /\ logs_req.container = NoArg
    /\ current_selection \in {SelSingle(LogPod(1, <<"app">>)),
                              SelRange(<<LogPod(1, <<"app">>), LogPod(2, <<"app">>)>>)}

ConsoleNext ==
    \/ \E reader \in BOOLEAN : do_logs_begin(reader)
    \/ \E ok \in BOOLEAN, amt \in 0..1 : producer_read_line(ok, amt)
    \/ producer_send
    \/ \E ok \in BOOLEAN, amt \in 0..1 : earlier_read_line(ok, amt)
    \/ earlier_send
    \/ console_check
    \/ console_recv
    \/ CtrlC

\* the session's thread and the spawned threads are scheduled; a read of
\* the stream returns within its timeout, when it has one
ConsoleFairSpec ==
    /\ ConsoleInit
    /\ [][ConsoleNext]_vars
    /\ WF_vars(\E reader \in BOOLEAN : do_logs_begin(reader))
    /\ WF_vars(console_check)
    /\ WF_vars(console_recv)
    /\ WF_vars(producer_send)
    /\ WF_vars(earlier_send)
    /\ WF_vars(timeout # "None" /\ \E ok \in BOOLEAN, amt \in 0..1 : producer_read_line(ok, amt))
    /\ WF_vars(timeout # "None" /\ \E ok \in BOOLEAN, amt \in 0..1 : earlier_read_line(ok, amt))

----------------------------------------------------------------------------
(* The port-forward command *)

\* a port specification is a string, kept as the sequence of its characters
SpecChars == {"8", "0", "a", ":"}

\* the longest specification made of SpecChars in every way
MaxSpecLen == 3

\* the specifications of the documentation, two around the largest u32, and
\* two with a sign
Examples ==
    { <<"8", "0", "8", "0">>,
      <<"8", "0", "8", "0", ":", "9", "0", "9", "0">>,
      <<":", "3", "4", "5", "6">>,
      <<"0", ":", "3", "4", "5", "6">>,
      <<"1", ":", "2", ":", "3">>,
      <<"a", "b", "c", ":", "8", "0">>,
      <<"4", "2", "9", "4", "9", "6", "7", "2", "9", "5">>,
      <<"4", "2", "9", "4", "9", "6", "7", "2", "9", "6">>,
      <<"8", "0", ":", "4", "2", "9", "4", "9", "6", "7", "2", "9", "6">>,
      <<"+", "8", "0">>,
      <<"8", "0", ":", "+">> }

PortSpecs == UNION {[1..n -> SpecChars] : n \in 0..MaxSpecLen} \cup Examples

\* the <ports> values of one command line: none, one, or two
PortArgs ==
    LET Others == { <<"8", "0", "8", "0", ":", "9", "0", "9", "0">>,
                    <<"1", ":", "2", ":", "3">> }
    IN {<<>>} \cup {<<s>> : s \in PortSpecs}
              \cup {<<s, e>> : s \in PortSpecs, e \in Others}
              \cup {<<e, s>> : e \in Others, s \in PortSpecs}

Digits == {"0", "1", "2", "3", "4", "5", "6", "7", "8", "9"}

DigitVal ==
    [c \in Digits |->
        CASE c = "0" -> 0 [] c = "1" -> 1 [] c = "2" -> 2 [] c = "3" -> 3
          [] c = "4" -> 4 [] c = "5" -> 5 [] c = "6" -> 6 [] c = "7" -> 7
          [] c = "8" -> 8 [] c = "9" -> 9]

\* a u32 is kept as two decimal limbs, value = hi * Limb + lo, so that the
\* test against u32::MAX = 4294967295 stays within the checker's integers
Limb == 100000

U32MaxHi == 42949

U32MaxLo == 67295

ParseOk == [ok |-> TRUE, err |-> ""]

ParseErr(err) == [ok |-> FALSE, err |-> err]

\* the digit loop of str::parse::<u32>: result = result * 10 + digit, with
\* the overflow checks of checked_mul and checked_add
RECURSIVE from_digits(_, _, _)
from_digits(digits, hi, lo) ==
    IF digits = <<>> THEN ParseOk
    ELSE IF Head(digits) \notin Digits
    THEN ParseErr("invalid digit found in string")
    ELSE LET low == lo * 10 + DigitVal[Head(digits)]
             nhi == hi * 10 + (low \div Limb)
             nlo == low % Limb
         IN IF nhi > U32MaxHi \/ (nhi = U32MaxHi /\ nlo > U32MaxLo)
            THEN ParseErr("number too large to fit in target type")
            ELSE from_digits(Tail(digits), nhi, nlo)

\* part.parse::<u32>(): one leading '+' is allowed, a sign alone is not
parse_u32(part) ==
    IF part = <<>> THEN ParseErr("cannot parse integer from empty string")
    ELSE LET digits == IF Head(part) = "+" THEN Tail(part) ELSE part
         IN IF digits = <<>>
            THEN ParseErr("invalid digit found in string")
            ELSE from_digits(digits, 0, 0)

\* s.split(sep): the pieces of s between the separators, one more than there
\* are separators
RECURSIVE split(_, _)
split(s, sep) ==
    IF \A i \in DOMAIN s : s[i] # sep THEN <<s>>
    ELSE LET i == CHOOSE k \in DOMAIN s :
                      s[k] = sep /\ \A j \in 1..(k - 1) : s[j] # sep
         IN <<SubSeq(s, 1, i - 1)>> \o split(SubSeq(s, i + 1, Len(s)), sep)

\* the validator checks the first part only
ports_validator_first_part(s) ==
    LET parts == split(s, ":")
    IN IF Len(parts) > 2
       THEN ParseErr("Invalid port specification, can only contain one ':'")
       ELSE IF parts[1] # <<>> /\ ~parse_u32(parts[1]).ok
       THEN ParseErr(parse_u32(parts[1]).err)
       ELSE ParseOk

\* the validator of the <ports> argument
ports_validator(s) ==
    LET parts == split(s, ":")
    IN IF Len(parts) > 2
       THEN ParseErr("Invalid port specification, can only contain one ':'")
       ELSE LET bad == {i \in DOMAIN parts :
                           parts[i] # <<>> /\ ~parse_u32(parts[i]).ok}
            IN IF bad = {} THEN ParseOk
               ELSE ParseErr(parse_u32(parts[CHOOSE i \in bad : \A j \in bad : i <= j]).err)

\* get_matches_from_safe for port-forward: <ports> is required, and every
\* value goes through the validator, in order; the first failure is the error
get_matches_from_safe(ports) ==
    IF ports = <<>>
    THEN ParseErr("The following required arguments were not provided")
    ELSE LET bad == {i \in DOMAIN ports : ~ports_validator(ports[i]).ok}
         IN IF bad = {} THEN ParseOk
            ELSE ports_validator(ports[CHOOSE i \in bad : \A j \in bad : i <= j])

\* env.current_pod(): the selected object when the selection is one pod
current_pod ==
    IF current_selection.tag = "Single" /\ is_pod(current_selection.objs[1])
    THEN current_selection.objs[1]
    ELSE NoObj

\* a forward that keeps only the first of the ports asked for
ForwardFirstPort(pod, ports) ==
    [pod |-> pod, ports |-> IF ports = <<>> THEN <<>> ELSE <<ports[1]>>,
     output |-> 0, reading |-> TRUE, child |-> "running"]

\* a live forward: env::PortForward { child, pod, ports, output }; output
\* counts the chunks appended, reading tells whether its thread still runs,
\* child whether the kubectl process runs
Forward(pod, ports) ==
    [pod |-> pod, ports |-> ports, output |-> 0, reading |-> TRUE, child |-> "running",
     locked |-> FALSE]

\* the chunks a capture thread appends at most
MaxChunks == 2

\* env.add_port_forward(pf): the forward goes to the end of the live list
add_port_forward(pf) == port_forwards' = Append(port_forwards, pf)

\* a port-forward command that keeps a forward in the list when kubectl
\* could not be executed
PortForwardKeepsFailed(spawn) ==
    /\ ~pf_obs.done
    /\ LET matches == get_matches_from_safe(pf_req)
           pod == current_pod
       IN IF ~matches.ok \/ pod = NoObj \/ kluster = NoKluster
          THEN /\ pf_obs' = PfObs(TRUE, matches.ok, <<>>, <<>>, <<"not forwarding">>)
               /\ UNCHANGED port_forwards
          ELSE /\ pf_obs' = PfObs(TRUE, TRUE,
                                  IF spawn = "Ok"
                                  THEN <<[ns |-> pod.namespace, context |-> kluster,
                                          pod |-> pod.name, ports |-> pf_req]>>
                                  ELSE <<>>,
                                  <<>>, <<>>)
               /\ add_port_forward(Forward(pod.name, pf_req))
    /\ UNCHANGED <<session_vars, log_vars, pf_req>>

\* the port-forward command: exec_match, then the handler
PortForward(spawn) ==
    /\ ~pf_obs.done
    /\ LET matches == get_matches_from_safe(pf_req)
           pod == current_pod
       IN IF ~matches.ok
          THEN /\ pf_obs' = PfObs(TRUE, FALSE, <<>>, <<matches.err>>, <<>>)
               /\ UNCHANGED port_forwards
          ELSE IF pod = NoObj
          THEN /\ pf_obs' = PfObs(TRUE, TRUE, <<>>, <<>>, <<"No active pod">>)
               /\ UNCHANGED port_forwards
          ELSE IF kluster = NoKluster
          THEN /\ pf_obs' = PfObs(TRUE, TRUE, <<>>, <<>>, <<"No active context">>)
               /\ UNCHANGED port_forwards
          ELSE IF spawn = "Ok"
          THEN /\ pf_obs' = PfObs(TRUE, TRUE,
                                  <<[ns |-> pod.namespace, context |-> kluster,
                                     pod |-> pod.name, ports |-> pf_req]>>,
                                  <<"Forwarding port(s)">>, <<>>)
               /\ add_port_forward(Forward(pod.name, pf_req))
          ELSE /\ pf_obs' = PfObs(TRUE, TRUE, <<>>, <<>>,
                                  <<IF spawn = "NotFound"
                                    THEN "Could not find kubectl binary. Is it in your PATH?"
                                    ELSE "Couldn't execute kubectl, not forwarding.">>)
               /\ UNCHANGED port_forwards
    /\ UNCHANGED <<session_vars, log_vars, pf_req>>

\* a thread that, with a chunk in hand, moves its forward to the front of
\* the live list
capture_read_reorders(i, ok, read) ==
    /\ i \in DOMAIN port_forwards
    /\ port_forwards[i].reading
    /\ ~port_forwards[i].locked
    /\ IF ok /\ read > 0
       THEN /\ port_forwards[i].output < MaxChunks
            /\ port_forwards' =
                  <<[port_forwards[i] EXCEPT !.locked = TRUE]>>
                  \o [j \in 1..(Len(port_forwards) - 1) |->
                         IF j < i THEN port_forwards[j] ELSE port_forwards[j + 1]]
       ELSE port_forwards' = [port_forwards EXCEPT ![i].reading = FALSE]
    /\ UNCHANGED <<session_vars, log_vars, pf_obs, pf_req>>

\* the thread of a forward: stdout.read(&mut buffer[..]); with a chunk read
\* it takes the lock of the shared output to append it, and it stops at end
\* of stream or on an error
capture_read(i, ok, read) ==
    /\ i \in DOMAIN port_forwards
    /\ port_forwards[i].reading
    /\ ~port_forwards[i].locked
    /\ IF ok /\ read > 0
       THEN /\ port_forwards[i].output < MaxChunks
            /\ port_forwards' = [port_forwards EXCEPT ![i].locked = TRUE]
       ELSE port_forwards' = [port_forwards EXCEPT ![i].reading = FALSE]
    /\ UNCHANGED <<session_vars, log_vars, pf_obs, pf_req>>

\* the thread of a forward: res.push_str(..) has appended the chunk, and the
\* lock is released
capture_push(i) ==
    /\ i \in DOMAIN port_forwards
    /\ port_forwards[i].locked
    /\ port_forwards' = [port_forwards EXCEPT ![i].output = @ + 1, ![i].locked = FALSE]
    /\ UNCHANGED <<session_vars, log_vars, pf_obs, pf_req>>

\* a forward started by an earlier command of the session, whose child has
\* closed its output since
Earlier == [Forward(2, <<<<"8", "0">>>>) EXCEPT !.output = 1, !.reading = FALSE]

\* the port-forward command is entered: with or without a context, with
\* nothing, a pod, a node or a range selected
PfInit ==
    /\ \E at \in { <<NoKluster, SelNone>>,
                   <<"c1", SelNone>>,
                   <<"c1", SelSingle(KObj("Pod", 1))>>,
                   <<"c1", SelSingle(KObj("Node", 1))>>,
                   <<"c1", SelRange(<<KObj("Pod", 1), KObj("Pod", 2)>>)>> } :
          kluster = at[1] /\ current_selection = at[2]
    /\ namespace = NoNamespace
    /\ last_objs = <<>>
    /\ obs = Idle
    /\ LogsIdle
    /\ port_forwards \in {<<>>, <<Earlier>>}
    /\ pf_obs = NoPf
    /\ pf_req \in PortArgs

PfNext ==
    \/ \E spawn \in {"Ok", "NotFound", "Other"} : PortForward(spawn)
    \/ \E i \in 1..2, ok \in BOOLEAN, read \in 0..1 : capture_read(i, ok, read)
    \/ \E i \in 1..2 : capture_push(i)

PfSpec == PfInit /\ [][PfNext]_vars

----------------------------------------------------------------------------
(* The port-forwards command and the live list *)

\* a confirmation that takes every answer but "n" for a yes
ConfirmsUnlessNo(conf) == trim(conf) # <<"n">>

\* conf.trim() == "y" || conf.trim() == "yes"
Confirms(conf) == trim(conf) = <<"y">> \/ trim(conf) = <<"y", "e", "s">>

\* at most MaxForwards forwards are live at a time
MaxForwards == 2

NoForward == [Forward(0, <<>>) EXCEPT !.reading = FALSE, !.child = "none"]

\* env.get_port_forward(i): the i-th forward of the live list, counted from 0
get_port_forward(i) ==
    IF i < Len(port_forwards) THEN port_forwards[i + 1] ELSE NoForward

RemoveAt(list, i) ==
    [j \in 1..(Len(list) - 1) |-> IF j < i + 1 THEN list[j] ELSE list[j + 1]]

\* how env.stop_port_forward may end: the child is killed and the entry
\* removed; or the kill fails, and the entry is still there or is gone
StopResults == {"Ok", "Err", "ErrRemoved"}

\* env.stop_port_forward(i): kills the child of the i-th forward and takes
\* the forward out of the live list
stop_port_forward(i, kill) ==
    IF kill \in {"Ok", "ErrRemoved"}
    THEN port_forwards' = RemoveAt(port_forwards, i)
    ELSE UNCHANGED port_forwards

\* a table numbered from 1
print_pfs_from_one(pfs) ==
    [i \in DOMAIN pfs |-> [index |-> i, pod |-> pfs[i].pod, ports |-> pfs[i].ports]]

\* print_pfs: one row per forward, numbered from 0 in list order
print_pfs(pfs) ==
    [i \in DOMAIN pfs |-> [index |-> i - 1, pod |-> pfs[i].pod, ports |-> pfs[i].ports]]

\* the description of a forward, as the handler writes it
Described == "Pod: {}, Port(s): {}"

\* a stop that stops the first forward, whatever the index
pfs_stop_first(i, pf, conf, kill) ==
    [obs |-> PfsObs("stop", <<i>>,
                    <<"Stop port-forward: ", Described, "  [y/N]? ", "Stopped">>,
                    <<>>, <<pf>>, <<>>, IF kill = "Ok" THEN <<pf>> ELSE <<>>),
     stopped |-> IF conf.ok /\ Confirms(conf.text) THEN <<0>> ELSE <<>>]

\* port-forwards stop i on the forward pf that is at index i: the question,
\* the answer read, and env.stop_port_forward(i) after "y" or "yes"
pfs_stop(i, pf, conf, kill) ==
    LET asked == <<"Stop port-forward: ", Described, "  [y/N]? ">>
    IN IF ~conf.ok
       THEN [obs |-> [PfsObs("stop", <<i>>,
                             asked \o <<"Could not read response, not stopping.">>,
                             <<>>, <<pf>>, <<>>, <<>>) EXCEPT !.read = <<conf>>],
             stopped |-> <<>>]
       ELSE IF ~Confirms(conf.text)
       THEN [obs |-> [PfsObs("stop", <<i>>, asked \o <<"Not stopping">>,
                             <<>>, <<pf>>, <<>>, <<>>) EXCEPT !.read = <<conf>>],
             stopped |-> <<>>]
       ELSE [obs |-> [(IF kill = "Ok"
                       THEN PfsObs("stop", <<i>>, asked \o <<"Stopped">>, <<>>,
                                   <<pf>>, <<>>, <<pf>>)
                       ELSE PfsObs("stop", <<i>>, asked, <<"Failed to stop">>,
                                   <<pf>>, <<>>, <<>>)) EXCEPT !.read = <<conf>>],
             stopped |-> <<i>>]

\* a read of the output that does not wait for the lock
output_lock_never(action, pf) == TRUE

\* pf.output.lock(): the read of the output waits until the thread of the
\* forward has released the lock
output_lock(action, pf) == action = "output" => ~pf.locked

\* port-forwards list i and port-forwards output i on the forward pf
pfs_show(action, i, pf) ==
    IF action = "output"
    THEN [PfsObs(action, <<i>>, <<Described, " Output:{}", "\n">>, <<>>,
                 <<pf>>, <<pf.output>>, <<>>) EXCEPT !.partial = <<pf.locked>>]
    ELSE PfsObs(action, <<i>>, <<Described, "\n">>, <<>>, <<pf>>, <<>>, <<>>)

\* a port-forwards command that does not look the index up before it stops
PortForwardsUnchecked(action, index, conf, kill) ==
    /\ ~pf_obs.done
    /\ IF index # <<>>
       THEN LET i == index[1]
                pf == get_port_forward(i)
            IN IF action = "stop"
               THEN LET r == pfs_stop(i, pf, conf, kill)
                    IN /\ pf_obs' = r.obs
                       /\ IF r.stopped # <<>>
                          THEN stop_port_forward(r.stopped[1], kill)
                          ELSE UNCHANGED port_forwards
               ELSE /\ output_lock(action, pf)
                    /\ pf_obs' = pfs_show(action, i, pf)
                    /\ UNCHANGED port_forwards
       ELSE /\ pf_obs' = [PfsObs(action, index, <<>>, <<>>, <<>>, <<>>, <<>>)
                             EXCEPT !.table = print_pfs(port_forwards)]
            /\ UNCHANGED port_forwards
    /\ UNCHANGED <<session_vars, log_vars, pf_req>>

\* the port-forwards command: action is absent, list, output or stop; index
\* is absent (<<>>) or <<i>>
PortForwards(action, index, conf, kill) ==
    /\ ~pf_obs.done
    /\ IF index # <<>>
       THEN LET i == index[1]
                pf == get_port_forward(i)
            IN IF pf = NoForward
               THEN /\ pf_obs' = PfsObs(action, index,
                                        <<"Invalid index (try without args to get a list)">>,
                                        <<>>, <<>>, <<>>, <<>>)
                    /\ UNCHANGED port_forwards
               ELSE IF action = "stop"
               THEN LET r == pfs_stop(i, pf, conf, kill)
                    IN /\ pf_obs' = r.obs
                       /\ IF r.stopped # <<>>
                          THEN stop_port_forward(r.stopped[1], kill)
                          ELSE UNCHANGED port_forwards
               ELSE /\ output_lock(action, pf)
                    /\ pf_obs' = pfs_show(action, i, pf)
                    /\ UNCHANGED port_forwards
       ELSE /\ pf_obs' = [PfsObs(action, index, <<>>, <<>>, <<>>, <<>>, <<>>)
                             EXCEPT !.table = print_pfs(port_forwards)]
            /\ UNCHANGED port_forwards
    /\ UNCHANGED <<session_vars, log_vars, pf_req>>

\* the kubectl process of a forward ends by itself
child_exits(i) ==
    /\ i \in DOMAIN port_forwards
    /\ port_forwards[i].child = "running"
    /\ port_forwards' = [port_forwards EXCEPT ![i].child = "exited"]
    /\ UNCHANGED <<session_vars, log_vars, pf_obs, pf_req>>

\* the <ports> values typed in a session that starts several forwards
SupArgs ==
    { << <<"8", "0", "8", "0">> >>,
      << <<"8", "0", "8", "0", ":", "9", "0", "9", "0">>, <<"0", ":", "3", "4", "5", "6">> >> }

\* the command line "port-forwards [action [index]]"
PfsArgs ==
    {<<"NoArg", <<>>>>}
    \cup {<<a, i>> : a \in {"list", "output", "stop"},
                     i \in {<<>>} \cup {<<n>> : n \in 0..MaxForwards}}

\* what is typed at the [y/N] prompt of port-forwards stop
StopAnswers ==
    {Line(TRUE, <<"y", "\n">>), Line(TRUE, <<"n", "\n">>), Line(FALSE, <<>>)}

\* the output of a port-forward or port-forwards command has been written;
\* the next command line is read
SupPrompt ==
    /\ pf_obs.done
    /\ pf_obs' = NoPf
    /\ pf_req' \in SupArgs
    /\ UNCHANGED <<session_vars, log_vars, port_forwards>>

\* a session with a context and a pod selected
SupInit ==
    /\ kluster = "c1"
    /\ namespace = NoNamespace
    /\ current_selection = SelSingle(KObj("Pod", 1))
    /\ last_objs = <<>>
    /\ obs = Idle
    /\ LogsIdle
    /\ port_forwards \in {<<>>, <<Earlier>>}
    /\ pf_obs = NoPf
    /\ pf_req \in SupArgs

\* one command at a time: a command starts when the output of the one
\* before, of either kind, has been written
SupIdle == AtPrompt /\ pf_obs = NoPf

SupNext ==
    \/ /\ SupIdle
       /\ Len(port_forwards) < MaxForwards
       /\ \E spawn \in {"Ok", "NotFound", "Other"} : PortForward(spawn)
    \/ /\ SupIdle
       /\ \E args \in PfsArgs, conf \in StopAnswers, kill \in StopResults :
             PortForwards(args[1], args[2], conf, kill)
    \/ SupPrompt
    \/ \E i \in 1..MaxForwards : child_exits(i)
    \/ SupIdle /\ Context("c2")
    \/ SupIdle /\ Namespace("ns1")
    \/ SupIdle /\ Clear
    \/ SupIdle /\ Pods(NoRegex, [ok |-> TRUE, items |-> <<1>>], NoSort, FALSE)
    \/ SupIdle /\ Logs([ok |-> TRUE, items |-> <<>>])
    \/ SupIdle /\ Delete([k \in DOMAIN current_selection.objs |-> Line(TRUE, <<"y", "\n">>)],
                          [k \in DOMAIN current_selection.objs |-> [ok |-> TRUE, items |-> <<>>]])
    \/ Prompt

SupSpec == SupInit /\ [][SupNext]_vars

----------------------------------------------------------------------------
(* port-forwards while the threads of the forwards run: the threads append
   to the outputs between any two steps of the command, also between the
   [y/N] question of a stop and its answer *)

\* the forwards that are live when the session is looked at
CapForwards == [i \in 1..MaxForwards |-> Forward(i, <<<<"8", "0", "8", i>>>>)]

\* what is typed at the [y/N] question
CapAnswers ==
    {Line(TRUE, <<"y", "\n">>), Line(TRUE, <<" ", "y", "e", "s", " ", "\n">>),
     Line(TRUE, <<"Y", "\n">>), Line(TRUE, <<"n", "\n">>), Line(TRUE, <<"\n">>),
     Line(FALSE, <<>>)}

\* port-forwards stop i, up to the question: env.get_port_forward(i), and
\* the description of the forward written with "[y/N]? "
pfs_stop_ask(i) ==
    /\ pf_obs = NoPf
    /\ LET pf == get_port_forward(i)
       IN /\ pf # NoForward
          /\ pf_obs' = [PfsObs("stop", <<i>>,
                                <<"Stop port-forward: ", Described, "  [y/N]? ">>,
                                <<>>, <<pf>>, <<>>, <<>>) EXCEPT !.done = FALSE]
    /\ UNCHANGED <<session_vars, log_vars, port_forwards, pf_req>>

\* port-forwards stop i, from the answer on: env.stop_port_forward(i) on
\* the forward that is at index i when the answer has been read
pfs_stop_answer(conf, kill) ==
    /\ ~pf_obs.done
    /\ pf_obs.action = "stop"
    /\ LET i == pf_obs.index[1]
           r == pfs_stop(i, pf_obs.shown[1], conf, kill)
       IN /\ pf_obs' = [r.obs EXCEPT
                           !.killed = IF @ = <<>> THEN @ ELSE <<get_port_forward(i)>>]
          /\ IF r.stopped # <<>>
             THEN stop_port_forward(r.stopped[1], kill)
             ELSE UNCHANGED port_forwards
    /\ UNCHANGED <<session_vars, log_vars, pf_req>>

CapInit ==
    /\ kluster = "c1"
    /\ namespace = NoNamespace
    /\ current_selection = SelSingle(KObj("Pod", 1))
    /\ last_objs = <<>>
    /\ obs = Idle
    /\ LogsIdle
    /\ \E n \in 1..MaxForwards : port_forwards = SubSeq(CapForwards, 1, n)
    /\ pf_obs = NoPf
    /\ pf_req \in SupArgs

CapNext ==
    \/ \E i \in 1..MaxForwards, ok \in BOOLEAN, read \in 0..1 : capture_read(i, ok, read)
    \/ \E i \in 1..MaxForwards : capture_push(i)
    \/ /\ SupIdle
       /\ \E args \in PfsArgs :
             /\ args[1] # "stop"
             /\ PortForwards(args[1], args[2], Line(FALSE, <<>>), "Ok")
    \/ \E i \in 0..(MaxForwards - 1) : pfs_stop_ask(i)
    \/ \E conf \in CapAnswers, kill \in StopResults : pfs_stop_answer(conf, kill)
    \/ SupPrompt

CapSpec == CapInit /\ [][CapNext]_vars

----------------------------------------------------------------------------
(* Properties *)

SelCmds == {"range", "logs", "describe", "exec", "delete", "containers", "events"}

\* the events by which a command acts on an object or on the cluster
Effects == {"invoke", "row", "get", "get_read", "stream", "delete", "prompt", "spawn"}

ListCmds ==
    {"pods", "nodes", "services", "deployments", "replicasets", "statefulsets",
     "configmaps", "secrets", "jobs", "namespaces"}

\* the listing commands that record what they list
RecordingCmds == ListCmds \ {"namespaces"}

KindOf(cmd) ==
    CASE cmd = "pods" -> "Pod"
      [] cmd = "nodes" -> "Node"
      [] cmd = "services" -> "Service"
      [] cmd = "deployments" -> "Deployment"
      [] cmd = "replicasets" -> "ReplicaSet"
      [] cmd = "statefulsets" -> "StatefulSet"
      [] cmd = "configmaps" -> "ConfigMap"
      [] cmd = "secrets" -> "Secret"
      [] cmd = "jobs" -> "Job"
      [] cmd = "namespaces" -> "Namespace"

Invocations == SelectSeq(obs.out, LAMBDA e : e.ev = "invoke")

\* the invocations and the separators, in the order they happened
Marks == SelectSeq(obs.out, LAMBDA e : e.ev \in {"invoke", "sep"})

\* C1: with no selection (initially or after clear) a selection-dependent
\* command invokes its action zero times, makes no remote call, asks nothing
\* and starts no stream, and apply_to_selection reports NoSelection; clear
\* leaves the selection None.
C1_NoSelection ==
    /\ obs.cmd = "clear" => current_selection = SelNone
    /\ (obs.cmd \in SelCmds /\ current_selection.tag = "None") =>
          /\ \A k \in DOMAIN obs.out : obs.out[k].ev \notin Effects
          /\ obs.err \in {"NoSelection", "NoContext"}
          /\ obs.err = "NoContext" => (obs.cmd = "exec" /\ kluster = NoKluster)

C1_Witness ==
    /\ obs.cmd = "delete"
    /\ obs.err = "NoSelection"
    /\ current_selection = SelNone
    /\ last_objs # <<>>

C3_RangeKept ==
    [][obs'.cmd \in ListCmds => current_selection' = current_selection]_vars

\* a range taken from the pods as first listed, after the pods were listed
\* again sorted by name
C3_Witness ==
    /\ obs.cmd = "pods"
    /\ current_selection = SelRange(<<KObj("Pod", 3), KObj("Pod", 2)>>)
    /\ last_objs = <<KObj("Pod", 1), KObj("Pod", 2), KObj("Pod", 3)>>

\* the k-th smallest member of a set of indices
Rank(I, i) == Cardinality({j \in I : j < i}) + 1

\* C4: a range expression that denotes the indices I, all within a non-empty
\* LastObjects L, resolves to exactly the objects of L at I in ascending
\* order, and resolving it again against the same L gives the same Range.
C4_ResolveRange ==
    obs.cmd = "setrange" =>
        LET I == Denoted(obs.args[1], Len(last_objs))
        IN (last_objs # <<>> /\ I # {} /\ I \subseteq 0..(Len(last_objs) - 1)) =>
              /\ obs.err = "ok"
              /\ current_selection.tag = "Range"
              /\ Len(current_selection.objs) = Cardinality(I)
              /\ \A i \in I : current_selection.objs[Rank(I, i)] = last_objs[i + 1]
              /\ resolve_range(obs.args[1], last_objs).objs = current_selection.objs

C4_Witness ==
    /\ obs.cmd = "setrange"
    /\ obs.err = "ok"
    /\ obs.args[1].tag = "Indices"
    /\ obs.args[1].idx = {0, 2}
    /\ Len(last_objs) = 3

\* C5: a range expression fails with InvalidRange when an index is out of
\* bounds or LastObjects is empty, before any object is acted on; a Range is
\* never empty.
C5_InvalidRange ==
    /\ current_selection.tag = "Range" => current_selection.objs # <<>>
    /\ obs.cmd = "setrange" =>
          LET I == Denoted(obs.args[1], Len(last_objs))
          IN (last_objs = <<>> \/ \E i \in I : i >= Len(last_objs)) =>
                /\ obs.err = "InvalidRange"
                /\ \A k \in DOMAIN obs.out : obs.out[k].ev \notin Effects

C5_Witness ==
    /\ obs.cmd = "setrange"
    /\ obs.err = "InvalidRange"
    /\ last_objs # <<>>
    /\ obs.args[1].tag = "Slice"
    /\ obs.args[1].lo = 0
    /\ obs.args[1].hi = Len(last_objs)

\* C6 as stated: after context with a name, whatever the name, the selection
\* is None and LastObjects is empty.
C6_AnyName ==
    (obs.cmd = "context" /\ obs.args[1] # NoArg) =>
        (current_selection = SelNone /\ last_objs = <<>>)

\* C6: context with a name other than that of the active context (or with no
\* context active) leaves the selection None and LastObjects empty; with the
\* name of the active context it changes neither.
C6_ContextSwitch ==
    [][(obs'.cmd = "context" /\ obs'.args[1] # NoArg) =>
          IF kluster = obs'.args[1]
          THEN current_selection' = current_selection /\ last_objs' = last_objs
          ELSE current_selection' = SelNone /\ last_objs' = <<>>]_vars

C6_Witness ==
    /\ obs.cmd = "context"
    /\ obs.args[1] = "c2"
    /\ kluster = "c2"
    /\ namespace = "ns1"
    /\ current_selection = SelNone
    /\ last_objs = <<>>

\* C7: the namespace command, setting or clearing, leaves the selection
\* unchanged.
C7_NamespaceKeepsSelection ==
    [][obs'.cmd = "namespace" => current_selection' = current_selection]_vars

C7_Witness ==
    /\ obs.cmd = "namespace"
    /\ obs.args[1] = NoArg
    /\ namespace = NoNamespace
    /\ current_selection.tag = "Range"

\* the objects of the table the last listing printed
Listed == [i \in 1..Len(obs.table) |-> KObj(KindOf(obs.cmd), obs.table[i].name)]

\* C8 as stated: every listing command, namespaces included, whose fetch
\* succeeds leaves in LastObjects exactly the objects it listed.
C8_EveryListing ==
    (obs.cmd \in ListCmds /\ obs.err = "ok") => last_objs = Listed

\* C8: every listing command but namespaces whose fetch succeeds replaces
\* LastObjects by the objects it listed, also when it listed none; the
\* namespaces command leaves LastObjects as it was.
C8_ListingReplaces ==
    [][/\ (obs'.cmd \in RecordingCmds /\ obs'.err = "ok") =>
            /\ Len(last_objs') = Len(obs'.table)
            /\ \A i \in 1..Len(last_objs') :
                  /\ last_objs'[i].typ = KindOf(obs'.cmd)
                  /\ last_objs'[i].name = obs'.table[i].name
       /\ obs'.cmd = "namespaces" => last_objs' = last_objs]_vars

\* an empty listing of nodes has replaced what was listed before: the
\* selection still holds an object of the earlier listing
C8_Witness ==
    /\ obs.cmd = "nodes"
    /\ obs.err = "ok"
    /\ obs.table = <<>>
    /\ last_objs = <<>>
    /\ current_selection.tag = "Single"

\* C9 as stated: every listing command, namespaces included, whose fetch
\* fails leaves LastObjects empty.
C9_EveryFailure ==
    (obs.cmd \in ListCmds /\ obs.err = "FetchFail") => last_objs = <<>>

\* C9: every listing command but namespaces whose fetch fails leaves
\* LastObjects empty, so that no range expression resolves afterwards; the
\* namespaces command leaves LastObjects as it was.
C9_FailureClears ==
    [][/\ (obs'.cmd \in RecordingCmds /\ obs'.err = "FetchFail") =>
            /\ last_objs' = <<>>
            /\ \A expr \in RangeExprs : ~resolve_range(expr, last_objs').ok
       /\ obs'.cmd = "namespaces" => last_objs' = last_objs]_vars

C9_Witness ==
    /\ obs.cmd = "services"
    /\ obs.err = "FetchFail"
    /\ last_objs = <<>>
    /\ current_selection.tag = "Range"
    /\ Len(current_selection.objs) = 2

\* C10 as stated: after any successful listing the object at index i of
\* LastObjects is the object shown in row i.
C10_EveryTable ==
    (obs.cmd \in ListCmds /\ obs.err = "ok") =>
        /\ Len(last_objs) = Len(obs.table)
        /\ \A i \in 1..Len(obs.table) : last_objs[i].name = obs.table[i].name

\* C10: after a successful listing by any command but namespaces, the rows
\* printed are numbered from 0 and the object at index i of LastObjects is
\* the object of row i; what the filter dropped is not in LastObjects.
C10_RowsAreLastObjects ==
    (obs.cmd \in RecordingCmds /\ obs.err = "ok") =>
        /\ DOMAIN last_objs = DOMAIN obs.table
        /\ \A i \in DOMAIN obs.table :
              /\ obs.table[i].idx = i - 1
              /\ last_objs[obs.table[i].idx + 1] = KObj(KindOf(obs.cmd), obs.table[i].name)
        /\ \A n \in Names :
              (\A i \in DOMAIN obs.table : obs.table[i].name # n) =>
                 (\A i \in DOMAIN last_objs : last_objs[i].name # n)

\* three pods fetched in the order 3, 2, 1, sorted and filtered to the rows 2, 3
C10_Witness ==
    /\ obs.cmd = "pods"
    /\ obs.err = "ok"
    /\ Len(obs.out) = 1
    /\ Len(obs.table) = 2
    /\ obs.table[1].name = 2
    /\ obs.table[2].name = 3

----------------------------------------------------------------------------
(* Properties of the logs command (LogSpec) *)

ConsoleMode == logs_req.output = <<>> /\ ~logs_req.editor

FileMode == logs_req.output # <<>>

EditorMode == logs_req.output = <<>> /\ logs_req.editor

\* do_logs has been called on an object; lg tells of that call
Acted == (lg.pc # "next" \/ lg.how # "running") /\ lg.how # "NotAPod"

\* the object lg tells of
LgObj == current_selection.objs[IF lg.pc = "next" THEN lg.idx - 1 ELSE lg.idx]

\* the lines written to the writer, in the order written
Written == SelectSeq(lg.out, LAMBDA w : w.kind = "line")

Said(kind, text) == \E i \in DOMAIN lg.out : lg.out[i].kind = kind /\ lg.out[i].text = text

UpTo(n) == [i \in 1..n |-> i]

\* C11 as stated: the effective container is the explicit one; else the only
\* one; else, of several, the first, with a warning; a pod without
\* containers makes the operation fail with NoContainer, nothing streamed.
C11_EffectiveContainer ==
    Acted =>
        LET containers == LgObj.containers
            warned == Said("warn", "Pod has multiple containers, picking the first one")
        IN IF logs_req.container # NoArg
           THEN lg.cont = logs_req.container /\ ~warned
           ELSE IF Len(containers) = 1
           THEN lg.cont = containers[1] /\ ~warned
           ELSE IF Len(containers) > 1
           THEN lg.cont = containers[1] /\ warned
           ELSE /\ lg.how = "NoContainer"
                /\ lg.opens = 0
                /\ Written = <<>>
                /\ lg.file.state = "none"

\* C12: in console mode, when the consumer leaves its loop because the
\* source closed (the flag not seen set), the lines written are exactly the
\* lines the source sent, in order, none lost or doubled, and do_logs has
\* returned without a message; at any time the lines written are the first
\* lines the source sent.
C12_ConsoleDelivers ==
    (ConsoleMode /\ Acted) =>
        /\ \E n \in 0..MaxSource : [i \in DOMAIN Written |-> Written[i].unit] = UpTo(n)
        /\ lg.stop = "disconnected" =>
              /\ [i \in DOMAIN Written |-> Written[i].unit] = UpTo(prod.src.sent)
              /\ ~\E i \in DOMAIN lg.out : lg.out[i].kind = "msg"
              /\ lg.how = "Ok"
              /\ lg.pc \in {"next", "done"}

C12_Witness ==
    /\ ConsoleMode
    /\ ~ctrlcbool
    /\ lg.stop = "disconnected"
    /\ prod.src.end = "eof"
    /\ prod.src.sent = MaxSource
    /\ Len(Written) = MaxSource

\* C13: in console mode the flag, once set, is seen at the next test of the
\* loop condition: at most one line is written after it was set, whatever
\* the thread still holds or sends, and the loop is left with do_logs
\* returning as it does at the end of a stream, without a message.
C13_ConsoleCancel ==
    /\ []((ConsoleMode /\ Acted /\ ctrlcbool) => lg.after <= 1)
    /\ []((ConsoleMode /\ lg.stop = "cancelled") =>
             (/\ lg.how = "Ok"
              /\ ~\E i \in DOMAIN lg.out : lg.out[i].kind = "msg"
              /\ lg.pc \in {"next", "done"}))
    /\ [][(ConsoleMode /\ lg.pc = "console" /\ ctrlcbool /\ lg' # lg) =>
             lg'.stop = "cancelled"]_vars

\* the flag was set while the thread still had lines to deliver, and one
\* line was written after that
C13_Witness ==
    /\ ConsoleMode
    /\ lg.stop = "cancelled"
    /\ lg.after = 1
    /\ prod.pc = "send"
    /\ Len(Written) = 2

\* C14: in file mode, when the stream ended and nothing failed, the file
\* holds every unit the source sent, in order.
C14_FileContent ==
    (FileMode /\ lg.stop = "eof") =>
        /\ lg.how = "Ok"
        /\ lg.file.state = "closed"
        /\ lg.file.content = UpTo(lg.src.sent)

C14_Witness ==
    /\ FileMode
    /\ lg.stop = "eof"
    /\ lg.src.sent = MaxSource
    /\ lg.file.content = UpTo(MaxSource)
    /\ ~ctrlcbool

\* in file mode: a read only follows a test of the flag that found it unset,
\* and a test that finds it set ends the copy
FlagChecked ==
    /\ (lg'.pc = "read" /\ lg.pc # "read") => (lg.pc = "check" /\ ~ctrlcbool)
    /\ (lg.pc = "check" /\ ctrlcbool /\ lg' # lg) => lg'.stop = "cancelled"

\* after a cancelled copy the file holds whole chunks: all that was read
CancelledPrefix ==
    (lg.file.state # "none" /\ lg.stop = "cancelled") =>
        /\ lg.file.content = UpTo(lg.src.sent)
        /\ lg.buf = <<>>
        /\ ~Said("msg", "Error writing logs to file")

\* C15 as stated: ... and the file is flushed and closed on every exit path:
\* normal end, cancellation and I/O error.
C15_FlushedOnEveryExit ==
    /\ CancelledPrefix
    /\ (lg.file.state # "none" /\ lg.stop # "no") =>
          (lg.file.state = "closed" /\ lg.file.flushed)

\* C15: in file mode the flag is tested before every read; when it is set
\* the copy stops without an error and the file holds the whole chunks read
\* so far; the file is closed on every exit path, and flushed on normal end
\* and on cancellation (an error returns without the flush).
C15_FileCancel ==
    /\ [][FlagChecked]_vars
    /\ [](CancelledPrefix)
    /\ []((lg.file.state # "none" /\ lg.stop # "no") =>
             /\ lg.file.state = "closed"
             /\ lg.stop \in {"eof", "cancelled"} => lg.file.flushed)

C15_Witness ==
    /\ FileMode
    /\ lg.stop = "cancelled"
    /\ lg.how = "Ok"
    /\ lg.file.state = "closed"
    /\ lg.file.flushed
    /\ lg.file.content = <<1, 2>>

\* the template names a field that is not name, namespace or time
UnknownField ==
    \E i \in DOMAIN logs_req.output :
        /\ logs_req.output[i].kind = "field"
        /\ logs_req.output[i].text \notin {"name", "namespace", "time"}

\* C16: in file mode, when the template does not expand, do_logs says so
\* through the writer and returns: no file is created and nothing is read
\* from the stream.
C16_PathTemplate ==
    (FileMode /\ Acted /\ UnknownField /\ lg.how \notin {"panic", "NoReader"}) =>
        /\ lg.how = "PathTemplateError"
        /\ Said("msg", "Can't generate output path")
        /\ lg.file.state = "none"
        /\ lg.path = <<>>
        /\ lg.src.sent = 0
        /\ ~Said("stdout", "Wrote logs to")

C16_Witness ==
    /\ FileMode
    /\ UnknownField
    /\ lg.how = "PathTemplateError"
    /\ lg.opens = 1
    /\ lg.pc = "next"

\* C17: in editor mode the editor is --editor's argument, else
\* click_config.editor, else EDITOR; with none of them do_logs says so and
\* returns before the temporary file is written or an editor started.
C17_EditorChoice ==
    (EditorMode /\ Acted /\ lg.how \notin {"panic", "NoReader"}) =>
        LET expected == IF logs_req.editor_opt # NoArg THEN logs_req.editor_opt
                        ELSE IF logs_req.config_editor # NoArg THEN logs_req.config_editor
                        ELSE logs_req.env_editor
        IN IF expected = NoArg
           THEN /\ lg.how = "NoEditorConfigured"
                /\ lg.file.state = "none"
                /\ lg.src.sent = 0
                /\ lg.started = NoArg
           ELSE /\ lg.how = "NoTempdir" \/ lg.editor = expected
                /\ lg.started \in {NoArg, expected}

C17_Witness ==
    /\ EditorMode
    /\ logs_req.editor_opt = NoArg
    /\ logs_req.config_editor = "emacs"
    /\ logs_req.env_editor = "nano"
    /\ lg.started = "emacs"

\* the stream of the object lg tells of has ended
StreamEnded ==
    \/ lg.stop = "eof"
    \/ ConsoleMode /\ lg.stop = "disconnected" /\ prod.src.end = "eof"

\* C18: in every mode the end of the stream, also of an empty one, is normal
\* completion: no error is written, do_logs returns (in editor mode after
\* starting the editor) and the iteration goes on to the next object.
C18_EndOfStream ==
    (Acted /\ StreamEnded) =>
        /\ ~Said("msg", "Error writing logs to file")
        /\ lg.file.state # "open"
        /\ IF lg.how = "running"
           THEN EditorMode /\ lg.pc = "start"
           ELSE /\ lg.how \in {"Ok", "EditorStartError"}
                /\ lg.how = "EditorStartError" => EditorMode
                /\ IF lg.pc = "next"
                   THEN lg.idx <= Len(current_selection.objs)
                   ELSE lg.pc = "done" /\ lg.idx = Len(current_selection.objs)

\* an empty stream to a file, in a range: the second object is next
C18_Witness ==
    /\ FileMode
    /\ lg.stop = "eof"
    /\ lg.src.sent = 0
    /\ lg.how = "Ok"
    /\ lg.pc = "next"
    /\ lg.idx = 2

\* C19 as stated: an error while reading the stream, and a file I/O error,
\* are reported and stop the streaming of the object, in every mode; the
\* stream is opened at most once for an object.
C19_ErrorsReported ==
    /\ lg.opens <= 1
    /\ (Acted /\ lg.how # "running" /\ lg.stop \in {"error", "disconnected"}
          /\ (IF ConsoleMode THEN prod.src.end = "err" ELSE lg.stop = "error")) =>
          /\ lg.how \in {"Transport", "Io"}
          /\ \E i \in DOMAIN lg.out : lg.out[i].kind = "msg"

----------------------------------------------------------------------------
(* Properties of the port-forward command (PfSpec) *)

Colons(s) == Cardinality({i \in DOMAIN s : s[i] = ":"})

\* the text before the first ':' and the text after it
LeftSide(s) == SubSeq(s, 1, (CHOOSE i \in DOMAIN s : s[i] = ":") - 1)

RightSide(s) == SubSeq(s, (CHOOSE i \in DOMAIN s : s[i] = ":") + 1, Len(s))

IsUnsigned(side) == side = <<>> \/ parse_u32(side).ok

\* at most one ':' and each non-empty side an unsigned integer
WellFormed(s) ==
    \/ Colons(s) = 0 /\ IsUnsigned(s)
    \/ Colons(s) = 1 /\ IsUnsigned(LeftSide(s)) /\ IsUnsigned(RightSide(s))

SameForwards(before, after) ==
    /\ Len(after) = Len(before)
    /\ \A i \in DOMAIN before :
          after[i].pod = before[i].pod /\ after[i].ports = before[i].ports

\* C20: the validator accepts a specification exactly when it has at most
\* one ':' and each non-empty side parses as a u32; it accepts 8080,
\* 8080:9090, :3456 and 0:3456 and rejects 1:2:3 and abc:80; a command with a
\* rejected specification does not run the handler: no process is spawned
\* and the live list stays as it was.
C20_PortSpecs ==
    /\ [](\A i \in DOMAIN pf_req : ports_validator(pf_req[i]).ok <=> WellFormed(pf_req[i]))
    /\ [](/\ ports_validator(<<"8", "0", "8", "0">>).ok
          /\ ports_validator(<<"8", "0", "8", "0", ":", "9", "0", "9", "0">>).ok
          /\ ports_validator(<<":", "3", "4", "5", "6">>).ok
          /\ ports_validator(<<"0", ":", "3", "4", "5", "6">>).ok
          /\ ~ports_validator(<<"1", ":", "2", ":", "3">>).ok
          /\ ~ports_validator(<<"a", "b", "c", ":", "8", "0">>).ok)
    /\ []((pf_obs.done /\ \E i \in DOMAIN pf_req : ~WellFormed(pf_req[i])) =>
             /\ ~pf_obs.execed
             /\ pf_obs.spawned = <<>>
             /\ pf_obs.err = <<>>
             /\ Len(pf_obs.out) = 1
             /\ pf_obs.out[1] # "Forwarding port(s)")
    /\ [][(\E i \in DOMAIN pf_req : ~WellFormed(pf_req[i])) =>
             SameForwards(port_forwards, port_forwards')]_vars

\* a command with a good and a bad specification, with a pod selected and a
\* forward already live: the command is over and the list is as before
C20_Witness ==
    /\ pf_obs.done
    /\ pf_req = << <<"8", "0", "8", "0", ":", "9", "0", "9", "0">>, <<"8", ":", "a">> >>
    /\ current_pod # NoObj
    /\ port_forwards # <<>>
    /\ pf_obs.out = <<"invalid digit found in string">>

----------------------------------------------------------------------------
(* Properties of the live list of forwards (SupSpec) *)

\* this step is a port-forward command
StartStep == ~pf_obs.done /\ pf_obs'.done /\ pf_obs'.cmd = "port-forward"

\* this step is a port-forwards command
PfsStep == ~pf_obs.done /\ pf_obs'.done /\ pf_obs'.cmd = "port-forwards"

\* C21: a port-forward command whose kubectl was spawned adds exactly one
\* entry, at the end of the live list, with the pod selected and the ports
\* asked for; the entries that were there keep their place and content.
C21_StartAppends ==
    [][(StartStep /\ pf_obs'.spawned # <<>>) =>
          /\ Len(port_forwards') = Len(port_forwards) + 1
          /\ \A j \in DOMAIN port_forwards : port_forwards'[j] = port_forwards[j]
          /\ port_forwards'[Len(port_forwards')].pod = current_pod.name
          /\ port_forwards'[Len(port_forwards')].ports = pf_req
          /\ pf_obs'.spawned[1].ports = pf_req]_vars

C21_Witness ==
    /\ pf_obs.cmd = "port-forward"
    /\ pf_obs.spawned # <<>>
    /\ Len(pf_req) = 2
    /\ port_forwards = <<Earlier, Forward(1, pf_req)>>

C23_InvalidIndex ==
    [][(PfsStep /\ pf_obs'.index # <<>> /\ pf_obs'.index[1] >= Len(port_forwards)) =>
          /\ pf_obs'.out = <<"Invalid index (try without args to get a list)">>
          /\ pf_obs'.err = <<>>
          /\ pf_obs'.shown = <<>>
          /\ pf_obs'.buffer = <<>>
          /\ pf_obs'.killed = <<>>
          /\ pf_obs'.table = <<>>
          /\ port_forwards' = port_forwards]_vars

\* stop with the first index past the end of a list that is not empty
C23_Witness ==
    /\ pf_obs.cmd = "port-forwards"
    /\ pf_obs.action = "stop"
    /\ port_forwards # <<>>
    /\ pf_obs.index = <<Len(port_forwards)>>
    /\ pf_obs.out = <<"Invalid index (try without args to get a list)">>

\* C24: listing and output leave the live list and the children as they are;
\* the table has one row per forward, in list order, numbered from 0, with
\* the pod and ports of the forward; output writes the forward's buffer.
C24_PureReads ==
    /\ [][(PfsStep /\ (pf_obs'.index = <<>> \/ pf_obs'.action # "stop")) =>
             (port_forwards' = port_forwards /\ pf_obs'.killed = <<>>)]_vars
    /\ []((pf_obs.cmd = "port-forwards" /\ pf_obs.index = <<>>) =>
             /\ DOMAIN pf_obs.table = DOMAIN port_forwards
             /\ \A k \in DOMAIN port_forwards :
                   pf_obs.table[k] = [index |-> k - 1, pod |-> port_forwards[k].pod,
                                      ports |-> port_forwards[k].ports])
    /\ []((pf_obs.cmd = "port-forwards" /\ pf_obs.action = "output"
              /\ pf_obs.index # <<>> /\ pf_obs.index[1] < Len(port_forwards)) =>
             pf_obs.buffer = <<port_forwards[pf_obs.index[1] + 1].output>>)

C24_Witness ==
    /\ pf_obs.cmd = "port-forwards"
    /\ pf_obs.action = "list"
    /\ Len(pf_obs.table) = 2
    /\ pf_obs.table[1] = [index |-> 0, pod |-> Earlier.pod, ports |-> Earlier.ports]
    /\ pf_obs.table[2].index = 1

\* the forward at place j is still there after the step, its child running
\* or ended by itself
Kept(j) ==
    /\ j \in DOMAIN port_forwards'
    /\ port_forwards'[j].pod = port_forwards[j].pod
    /\ port_forwards'[j].ports = port_forwards[j].ports
    /\ port_forwards'[j].child \in {port_forwards[j].child, "exited"}

\* this step is port-forwards stop i, with the question asked
StopAsked ==
    /\ PfsStep
    /\ pf_obs'.action = "stop"
    /\ \E k \in DOMAIN pf_obs'.out : pf_obs'.out[k] = "  [y/N]? "

\* C25: a forward stays in the live list, and the session does not kill its
\* child, until a port-forwards stop names it: no other command (listing,
\* context, namespace, clear, logs, delete, port-forward, port-forwards list
\* and output) removes it, and when its child ends by itself the entry stays
\* and is listed like the others.
C25_ForwardsStay ==
    /\ [][StopAsked \/ \A j \in DOMAIN port_forwards : Kept(j)]_vars
    /\ [][(obs' # obs) => port_forwards' = port_forwards]_vars
    /\ [][(pf_obs'.killed # <<>> /\ pf_obs' # pf_obs) => StopAsked]_vars
    /\ []((pf_obs.cmd = "port-forwards" /\ pf_obs.index = <<>>) =>
             Len(pf_obs.table) = Len(port_forwards))

\* after a context switch the two forwards are still live, the child of one
\* of them having ended
C25_Witness ==
    /\ obs.cmd = "context"
    /\ kluster = "c2"
    /\ Len(port_forwards) = 2
    /\ port_forwards[2].child = "exited"

----------------------------------------------------------------------------
(* The delete command and what the operator types (DelSpec) *)

\* what the operator may type at the prompt of delete_obj: an answer in
\* lower or in upper case, with or without blanks around it, a refusal,
\* nothing at all (end of input), or a read that fails
DelAnswers ==
    {Line(TRUE, <<"y", "\n">>),
     Line(TRUE, <<"y", "e", "s", "\n">>),
     Line(TRUE, <<" ", "y", "e", "s", " ", "\n">>),
     Line(TRUE, <<"Y", "\n">>),
     Line(TRUE, <<"Y", "E", "S", "\n">>),
     Line(TRUE, <<"n", "\n">>),
     Line(TRUE, <<>>),
     Line(FALSE, <<>>)}

\* an object the listing gave no namespace for
NoNsObj(typ, name) == [KObj(typ, name) EXCEPT !.namespace = NoNamespace]

\* what delete runs on
DelSelections ==
    {SelSingle(KObj("Pod", 1)),
     SelSingle(KObj("Node", 1)),
     SelRange(<<KObj("Pod", 1), KObj("Deployment", 2)>>),
     SelRange(<<KObj("Pod", 1), NoNsObj("Pod", 2), KObj("Node", 1)>>)}

DelInit ==
    /\ kluster = "c1"
    /\ namespace = NoNamespace
    /\ current_selection \in DelSelections
    /\ last_objs = <<>>
    /\ obs = Idle
    /\ LogsIdle
    /\ port_forwards = <<>>
    /\ pf_obs = NoPf
    /\ pf_req = <<>>

DelNext ==
    \/ \E conf \in [DOMAIN current_selection.objs -> DelAnswers],
          resp \in [DOMAIN current_selection.objs -> CallResponses] :
          Delete(conf, resp)
    \/ Prompt

DelSpec == DelInit /\ [][DelNext]_vars

\* the place of the k-th invocation in what the command did
InvokedAt(k) ==
    CHOOSE i \in DOMAIN obs.out :
        /\ obs.out[i].ev = "invoke"
        /\ Cardinality({j \in 1..i : obs.out[j].ev = "invoke"}) = k

\* what the k-th invocation did, until the next one or the end
Portion(k) ==
    {i \in DOMAIN obs.out :
        /\ InvokedAt(k) < i
        /\ obs.out[i].ev # "sep"
        /\ k < Len(Invocations) => i < InvokedAt(k + 1)}

\* the delete calls issued for an object, and the lines read for it
DeleteCalls(obj) == {i \in DOMAIN obs.out : obs.out[i].ev = "delete" /\ obs.out[i].obj = obj}

LinesRead(obj) == {i \in DOMAIN obs.out : obs.out[i].ev = "read" /\ obs.out[i].obj = obj}

\* the upper-case letters of the answers, in lower case
AsLower(c) ==
    CASE c = "Y" -> "y"
      [] c = "E" -> "e"
      [] c = "S" -> "s"
      [] OTHER -> c

to_lowercase(s) == [i \in DOMAIN s |-> AsLower(s[i])]

\* C26 as stated: the delete call is issued when, and only when, the answer
\* trimmed and compared without regard to case is "y" or "yes", so that "Y"
\* and "YES" delete.
C26_AnyCaseConfirms ==
    obs.cmd = "delete" =>
        \A k \in DOMAIN current_selection.objs :
            LET obj == current_selection.objs[k]
            IN (\E i \in LinesRead(obj) :
                    to_lowercase(trim(obs.out[i].arg)) \in {<<"y">>, <<"y", "e", "s">>})
               <=> DeleteCalls(obj) # {}

\* C26: the delete call is issued for an object when, and only when, a line
\* was read for it that, trimmed, is exactly "y" or "yes" in lower case; "Y",
\* "YES", any other text, the empty input and a failed read issue no delete.
C26_ExactAnswerConfirms ==
    obs.cmd = "delete" =>
        \A k \in DOMAIN current_selection.objs :
            LET obj == current_selection.objs[k]
            IN /\ (\E i \in LinesRead(obj) :
                       trim(obs.out[i].arg) \in {<<"y">>, <<"y", "e", "s">>})
                  <=> DeleteCalls(obj) # {}
               /\ Cardinality(DeleteCalls(obj)) <= 1
               /\ \A i \in DeleteCalls(obj) : \E j \in LinesRead(obj) : j < i

\* "YES" was typed for one object and " yes " for another: only the second
\* is deleted
C26_Witness ==
    /\ obs.cmd = "delete"
    /\ current_selection.tag = "Range"
    /\ \E i \in LinesRead(current_selection.objs[1]) :
            obs.out[i].arg = <<"Y", "E", "S", "\n">>
    /\ DeleteCalls(current_selection.objs[1]) = {}
    /\ \E i \in LinesRead(current_selection.objs[2]) :
            obs.out[i].arg = <<" ", "y", "e", "s", " ", "\n">>
    /\ DeleteCalls(current_selection.objs[2]) # {}

\* delete_obj asks about a node, and about any other object with a namespace
Asked(obj) == obj.typ = "Node" \/ obj.namespace # NoNamespace

Prompts(k) == {i \in Portion(k) : obs.out[i].ev = "prompt"}

\* one object after the other, in range order
Sequential ==
    /\ obs.err = "ok"
    /\ [k \in 1..Len(Invocations) |-> Invocations[k].obj] = current_selection.objs
    /\ \A k \in DOMAIN current_selection.objs :
          \A i \in Portion(k) : obs.out[i].obj = current_selection.objs[k]

\* C27 as stated: on a Range the confirmation is asked once for every object,
\* one object after the other in range order, whatever was answered or
\* happened for the objects before.
C27_AskedForEveryObject ==
    (obs.cmd = "delete" /\ current_selection.tag = "Range") =>
        /\ Sequential
        /\ \A k \in DOMAIN current_selection.objs : Cardinality(Prompts(k)) = 1

\* C27: on a Range delete_obj is invoked once per object, one object after
\* the other in range order, whatever was answered or happened for the
\* objects before; it asks once, before anything else, about every node and
\* every object whose namespace is known, and asks nothing about an object
\* whose namespace is unknown.
C27_AskedInOrder ==
    (obs.cmd = "delete" /\ current_selection.tag = "Range") =>
        /\ Sequential
        /\ \A k \in DOMAIN current_selection.objs :
              IF Asked(current_selection.objs[k])
              THEN Prompts(k) = {InvokedAt(k) + 1}
              ELSE /\ Prompts(k) = {}
                   /\ DeleteCalls(current_selection.objs[k]) = {}

\* the first object is declined, the second has no namespace, and the third
\* is still asked about and deleted
C27_Witness ==
    /\ obs.cmd = "delete"
    /\ current_selection.tag = "Range"
    /\ Len(current_selection.objs) = 3
    /\ \E i \in Portion(1) : obs.out[i] = Ev("write", current_selection.objs[1], <<"Not deleting">>)
    /\ Prompts(2) = {}
    /\ Cardinality(Prompts(3)) = 1
    /\ \E i \in Portion(3) : obs.out[i] = Ev("write", current_selection.objs[3], <<"Deleted">>)

----------------------------------------------------------------------------
(* Properties of failures and of the cancellation flag (LogSpec) *)

\* C28: the closure of Logs is called on the objects of the selection one
\* after the other in order, and a failure it reports for one object (not a
\* pod, no reader, a stream or file error, no output path, no editor) ends
\* only that call: the objects that failed are among those called, the next
\* call is for the next object, and the command ends only when every object
\* was called.
C28_FailureAbortsOnlyItsObject ==
    /\ lg.invoked = UpTo(Len(lg.invoked))
    /\ \A k \in DOMAIN lg.failed : lg.failed[k] \in 1..Len(lg.invoked)
    /\ lg.pc = "next" =>
          /\ lg.idx = Len(lg.invoked) + 1
          /\ lg.idx <= Len(current_selection.objs)
    /\ lg.pc \notin {"next", "done"} => lg.idx = Len(lg.invoked)
    /\ lg.pc = "done" => lg.invoked = UpTo(Len(current_selection.objs))

\* the first object of a range failed, and do_logs has run to its end on the
\* second
C28_Witness ==
    /\ current_selection.tag = "Range"
    /\ lg.failed = <<1>>
    /\ lg.invoked = <<1, 2>>
    /\ lg.pc = "done"
    /\ lg.how = "Ok"
    /\ lg.src.sent = MaxSource

\* C29 as stated: no failure ends the session: whatever the pod and its
\* namespace, do_logs returns to the session.
C29_ControlReturns == lg.pc # "panic"

\* the stream of the object at lg.idx is being consumed
Streaming == lg.pc \in {"create", "check", "read", "write", "console", "recv"}

\* do_logs got its reader and goes on to consume it
Opens ==
    /\ lg.pc = "next"
    /\ lg'.pc \in {"create", "console"}

\* C30: do_logs stores false in ctrlcbool when it has its reader, before
\* anything is read from it, written or queued; so, while the stream is
\* consumed, the flag is set only if an interrupt came during this very
\* call, and a stream is cancelled only by such an interrupt, whatever the
\* flag held when do_logs was called.
C30_FlagReset ==
    /\ [][Opens => /\ ~ctrlcbool'
                   /\ lg'.src.sent = 0
                   /\ prod'.src.sent = 0
                   /\ chan'.queue = <<>>
                   /\ lg'.file = NoFile
                   /\ \A i \in DOMAIN lg'.out : lg'.out[i].kind # "line"]_vars
    /\ [](Streaming => (ctrlcbool <=> lg.interrupted))
    /\ [](lg.stop = "cancelled" => lg.interrupted)

\* the flag was set when do_logs was called, no interrupt came, and every
\* line of the stream was written
C30_Witness ==
    /\ ConsoleMode
    /\ lg.entry
    /\ ~lg.interrupted
    /\ lg.stop = "disconnected"
    /\ [i \in DOMAIN Written |-> Written[i].unit] = UpTo(MaxSource)

----------------------------------------------------------------------------
(* Properties of the console thread and its channel (LogSpec) *)

\* C31 as stated: the lines pushed by the thread and not yet received never
\* exceed a fixed capacity, whatever the speeds of the two sides: the channel
\* never holds a whole stream of MaxSource lines.
C31_ChannelBounded == Len(chan.queue) < MaxSource

\* the position of the object of the call lg tells of
LgIdx == IF lg.pc = "next" THEN lg.idx - 1 ELSE lg.idx

\* C32: a console call has one thread and one channel of its own: while its
\* loop runs the current thread is the one it spawned, the channel holds
\* only lines that thread read, and every line the call has written was read
\* by its own thread, also while the thread of an earlier call is alive.
C32_OwnThreadAndChannel ==
    /\ \A i \in DOMAIN chan.queue : chan.queue[i].by = prod.owner
    /\ Len(lg.by) = Len(Written)
    /\ \A i \in DOMAIN lg.by : lg.by[i] = LgIdx
    /\ lg.pc \in {"console", "recv"} =>
          /\ prod.owner = lg.idx
          /\ prod.pc # "none"
          /\ prod.earlier.pc # "none" => prod.earlier.owner < lg.idx

\* the second pod of a range has written a line while the thread of the
\* first, whose stream was cancelled, still holds a line to send
C32_Witness ==
    /\ lg.pc = "recv"
    /\ lg.idx = 2
    /\ Len(lg.by) >= 1
    /\ prod.earlier.pc = "send"
    /\ prod.earlier.owner = 1

----------------------------------------------------------------------------
(* Properties of port-forwards while the threads of the forwards run
   (CapSpec) *)

\* C33: the output of a forward is written by its thread alone, by whole
\* chunks appended under the lock; a read writes what the output holds at
\* that moment, never a half appended chunk, and what a read has written
\* stays a prefix of what the output holds from then on.
C33_SingleWriter ==
    /\ [](pf_obs.action = "output" /\ pf_obs.buffer # <<>> =>
            /\ pf_obs.partial = <<FALSE>>
            /\ pf_obs.buffer[1] <= get_port_forward(pf_obs.index[1]).output)
    /\ [][\A i \in DOMAIN port_forwards :
            (i \in DOMAIN port_forwards' /\ port_forwards'[i].pod = port_forwards[i].pod) =>
               /\ port_forwards'[i].output >= port_forwards[i].output
               /\ port_forwards'[i].output # port_forwards[i].output =>
                     /\ port_forwards[i].locked
                     /\ ~port_forwards'[i].locked
                     /\ port_forwards'[i].output = port_forwards[i].output + 1
                     /\ pf_obs' = pf_obs]_vars
    /\ [][(pf_obs' # pf_obs /\ pf_obs'.action = "output" /\ pf_obs'.buffer # <<>>) =>
            /\ pf_obs'.buffer = <<get_port_forward(pf_obs'.index[1]).output>>
            /\ port_forwards' = port_forwards]_vars

\* the output of a forward was read with one chunk in it, and the thread has
\* appended a second chunk since
C33_Witness ==
    /\ pf_obs.action = "output"
    /\ pf_obs.buffer = <<1>>
    /\ get_port_forward(pf_obs.index[1]).output = 2

\* C34: between the question of a stop and its answer the forward at the
\* index is the one the question showed; the forward taken out of the list
\* is the one at that index; and the threads of the forwards never change
\* the length or the order of the list.
C34_StopsWhatWasShown ==
    /\ [](pf_obs.action = "stop" /\ ~pf_obs.done =>
            /\ get_port_forward(pf_obs.index[1]).pod = pf_obs.shown[1].pod
            /\ get_port_forward(pf_obs.index[1]).ports = pf_obs.shown[1].ports)
    /\ [][Len(port_forwards') # Len(port_forwards) =>
            /\ pf_obs.action = "stop"
            /\ ~pf_obs.done
            /\ pf_obs'.done
            /\ port_forwards' = RemoveAt(port_forwards, pf_obs.index[1])]_vars
    /\ [][pf_obs' = pf_obs =>
            /\ Len(port_forwards') = Len(port_forwards)
            /\ \A j \in DOMAIN port_forwards :
                  /\ port_forwards'[j].pod = port_forwards[j].pod
                  /\ port_forwards'[j].ports = port_forwards[j].ports]_vars

\* the first of two forwards was stopped, and its thread had appended a
\* chunk between the question and the answer
C34_Witness ==
    /\ pf_obs.action = "stop"
    /\ pf_obs.done
    /\ pf_obs.index = <<0>>
    /\ pf_obs.killed # <<>>
    /\ pf_obs.killed[1].output > pf_obs.shown[1].output
    /\ Len(port_forwards) = 1

\* the answer says yes
Yes(line) == line.ok /\ trim(line.text) \in {<<"y">>, <<"y", "e", "s">>}

\* C39: a stop kills the child and takes the forward out of the list only
\* when the answer read is "y" or "yes" once trimmed; after any other
\* answer, and after an answer that could not be read, the list and the
\* forwards in it are as before.
C39_StopsOnlyOnYes ==
    [][(pf_obs.action = "stop" /\ ~pf_obs.done /\ pf_obs'.done) =>
        /\ pf_obs'.read # <<>>
        /\ IF Yes(pf_obs'.read[1])
           THEN pf_obs'.killed # <<>> \/ pf_obs'.err = <<"Failed to stop">>
           ELSE port_forwards' = port_forwards /\ pf_obs'.killed = <<>>]_vars

\* a forward was stopped after the answer " yes "
C39_Witness ==
    /\ pf_obs.action = "stop"
    /\ pf_obs.read = <<Line(TRUE, <<" ", "y", "e", "s", " ", "\n">>)>>
    /\ pf_obs.killed # <<>>
    /\ Len(port_forwards) < MaxForwards

----------------------------------------------------------------------------
(* Properties of a port-forward that does not start (PfSpec) *)

\* C38: a port-forward command that spawns no kubectl (no pod selected, no
\* active context, kubectl not found or not executable) leaves the live list
\* as it was, entry by entry, so that no thread is started and the table a
\* later port-forwards prints has the rows it had before.
C38_FailedStartKeepsList ==
    [][(StartStep /\ pf_obs'.spawned = <<>>) =>
          /\ port_forwards' = port_forwards
          /\ print_pfs(port_forwards') = print_pfs(port_forwards)]_vars

\* kubectl was not found while an earlier forward is live
C38_Witness ==
    /\ pf_obs.done
    /\ pf_obs.err = <<"Could not find kubectl binary. Is it in your PATH?">>
    /\ port_forwards = <<Earlier>>

----------------------------------------------------------------------------
(* Properties of editor mode and of a cancelled range (LogSpec) *)

\* C35: in editor mode the editor is started only once write_logs_to_file
\* has returned without error and the file is flushed and closed; the path
\* of the file is the last word of its command line; do_logs returns in the
\* step that starts it; and when the write failed no editor is started.
C35_EditorAfterWrite ==
    /\ [](lg.how \in {"Io", "Transport"} => lg.started = NoArg /\ lg.eargs = <<>>)
    /\ [][(lg'.eargs # <<>> /\ lg.eargs = <<>>) =>
            /\ EditorMode
            /\ lg.pc = "start"
            /\ lg.stop # "error"
            /\ lg.file.flushed
            /\ lg.file.state = "closed"
            /\ lg'.file = lg.file
            /\ lg'.eargs[Len(lg'.eargs)] = lg.path
            /\ lg'.eargs[1] = split_whitespace(lg.editor)[1]
            /\ lg'.how = "Ok"
            /\ lg'.pc \in {"next", "done"}]_vars

\* the editor "vi -R" was started on the file of a whole stream
C35_Witness ==
    /\ lg.eargs = <<"vi", "-R", lg.path>>
    /\ Len(lg.file.content) = MaxSource

\* the editor was not started: the stream failed while the file was written
C35_WitnessFailed ==
    /\ EditorMode
    /\ lg.how = "Transport"
    /\ lg.file.content # <<>>

\* what was written of the stream of the object lg tells of, and what its
\* reader gave
Delivered ==
    IF ConsoleMode THEN [i \in DOMAIN Written |-> Written[i].unit] ELSE lg.file.content

Given == IF ConsoleMode THEN prod.src.sent ELSE lg.src.sent

\* C36: when the flag stopped the stream of object k of a range, the closure
\* is still called on object k+1; the do_logs of a later object that gets
\* its reader resets the flag, and unless an interrupt comes during that
\* call its stream is consumed to its end and written in full.
C36_CancelStopsOnlyItsObject ==
    /\ [](\A j \in DOMAIN lg.cancelled :
            LET k == lg.cancelled[j]
            IN /\ k \in DOMAIN lg.invoked
               /\ k < Len(current_selection.objs) =>
                     \/ lg.pc = "next" /\ lg.idx = k + 1
                     \/ Len(lg.invoked) > k)
    /\ [][(Opens /\ lg.cancelled # <<>>) => ~ctrlcbool']_vars
    /\ []((lg.cancelled # <<>> /\ LgIdx \in DOMAIN lg.invoked /\ ~lg.interrupted
           /\ lg.stop # "no" /\ lg.cancelled[Len(lg.cancelled)] < LgIdx) =>
            /\ lg.stop \in {"eof", "disconnected", "error"}
            /\ lg.stop \in {"eof", "disconnected"} => Delivered = UpTo(Given))

\* the stream of the first pod of a range was cancelled; the second pod was
\* entered with the flag still set and its whole stream is in its file
C36_Witness ==
    /\ FileMode
    /\ lg.cancelled = <<1>>
    /\ lg.invoked = <<1, 2>>
    /\ lg.entry
    /\ ~lg.interrupted
    /\ lg.stop = "eof"
    /\ lg.file.content = UpTo(MaxSource)

----------------------------------------------------------------------------
(* Properties of the thread after its console loop has returned
   (ConsoleFairSpec) *)

\* the thread spawned by the call on object k has not ended
Alive(k) ==
    \/ prod.owner = k /\ prod.pc \in {"read_line", "send"}
    \/ prod.earlier.owner = k /\ prod.earlier.pc \in {"read_line", "send"}

\* the console loop of the call on object k has returned
ConsumerGone(k) ==
    \/ prod.owner = k /\ ~chan.rx
    \/ prod.earlier.owner = k

\* C37 as stated: a line is written only by the console loop of the call
\* whose thread read it, while that loop runs; and once the loop of a call
\* has returned, the thread of that call ends.
C37_ProducerTerminates ==
    /\ [][Len(Written') > Len(Written) /\ lg'.idx = lg.idx =>
            /\ lg.pc = "recv"
            /\ chan.rx
            /\ lg'.by[Len(lg'.by)] = lg.idx]_vars
    /\ \A k \in 1..2 : ConsumerGone(k) ~> ~Alive(k)

----------------------------------------------------------------------------
(* Properties of a listing command with a regex that does not compile
   (Spec) *)

\* C40: a listing command whose regex does not compile writes the error and
\* returns: it makes no remote call, prints no table, and leaves the list
\* of last objects and the selection as they were.
C40_BadRegexKeepsState ==
    [][(obs.cmd = "prompt" /\ obs'.cmd \in ListCmds /\ obs'.err = "BadRegex") =>
          /\ last_objs' = last_objs
          /\ current_selection' = current_selection
          /\ kluster' = kluster
          /\ namespace' = namespace
          /\ obs'.table = <<>>
          /\ \A i \in DOMAIN obs'.out : obs'.out[i].ev = "stderr"]_vars

\* nodes with a bad regex while a list is recorded and an object selected
C40_Witness ==
    /\ obs.cmd = "nodes"
    /\ obs.err = "BadRegex"
    /\ last_objs # <<>>
    /\ current_selection # SelNone
    /\ kluster # NoKluster

====
